---- MODULE Spec2Model ----
(***************************************************************************)
(* A model of datavac's storage layer (src/src/datavac/io/database.py):   *)
(* the PostgreSQL database as seen through one process, the in-memory     *)
(* table catalog (MetaData), the ingestion transaction push_data, the     *)
(* derived-analysis pipeline, the dump routines and heal.                  *)
(*                                                                         *)
(* A connection is a record S: S.c is what the open transaction sees,     *)
(* S.d is the committed database, S.cat the in-memory catalog, S.seq the  *)
(* serial sequences (never rolled back), S.failed an exception in flight. *)
(* Every statement of the code is an operator from S to S; an exception   *)
(* makes the rest of the handler a no-op, and the handler's action keeps  *)
(* S.d, which is the committed state after the implicit rollback.         *)
(***************************************************************************)
EXTENDS Integers, Sequences, FiniteSets, TLC

VARIABLES db, catalog, seqs, now, last, ddf, _database, environ, credentials

vars == <<db, catalog, seqs, now, last, ddf, _database, environ, credentials>>

(***************************************************************************)
(* Bounds and configuration (CONFIG)                                       *)
(***************************************************************************)
\* Number of operations in one behaviour; also caps the clock and the serials.
MaxOps == 3

Mats == {"m1", "m2"}
Groups == {"g1", "g2", "g3"}
Analyses == {"a1"}
GroupOrder == <<"g1", "g2", "g3">>
AnalysisOrder == <<"a1">>
MatOrder == <<"m1", "m2">>
\* the Mask column of every material_info, and the configured die maps
MaskOf == [m \in Mats |-> "mkA"]
NULL == 0

required_dependencies == [a \in Analyses |-> {"g1"}]
attempt_dependencies == [a \in Analyses |-> {"g2"}]

\* CONFIG.get_dependent_analyses: analyses declaring a dependency on a group
get_dependent_analyses(gs) ==
    {a \in Analyses : (required_dependencies[a] \cup attempt_dependencies[a]) \cap gs # {}}

\* CONFIG.get_dependency_meas_groups_for_analyses
get_dependency_meas_groups_for_analyses(ans, required_only) ==
    UNION {required_dependencies[a] \cup (IF required_only THEN {} ELSE attempt_dependencies[a])
           : a \in ans}

\* meta_reader.ensure_meas_group_sufficiency: g3 is only derivable together
\* with g1; None (no restriction) means every configured group.
JointlyRead == [g \in Groups |-> IF g = "g3" THEN {"g1"} ELSE {}]
ensure_meas_group_sufficiency(gs) == gs \cup UNION {JointlyRead[g] : g \in gs}

(***************************************************************************)
(* Tables of the internal schema                                           *)
(***************************************************************************)
CoreNames == {"Materials", "Loads", "ReExtract", "ReAnalyze"}
MaskNames == {"Masks", "Dies"}
GroupKinds == {"Layout", "Meas", "Extr", "Sweep"}
Tab(kind, x) == <<kind, x>>
CoreTab(n) == Tab(n, "-")
Tables == {CoreTab(n) : n \in CoreNames \cup MaskNames}
          \cup {Tab(k, g) : k \in GroupKinds, g \in Groups}
          \cup {Tab("Analysis", a) : a \in Analyses}
NoTab == Tab("-", "-")
\* "absent", or the column list the table has: "ok" is the list the current
\* configuration asks for, "old" any other list.
Shapes == {"absent", "ok", "old"}

\* self._mgt / self._hat / self._mattab ...: the catalog lookup
_mgt(cat, g, wh) == cat[Tab(wh, g)]
_hat(cat, a) == cat[Tab("Analysis", a)]

(***************************************************************************)
(* Rows                                                                    *)
(***************************************************************************)
MatRow(name, matid, duc) == [name |-> name, matid |-> matid, date_user_changed |-> duc]
LoadRow(loadid, matid, mg) == [loadid |-> loadid, matid |-> matid, MeasGroup |-> mg]
\* one measurement (measid 0) per load: Meas, Extr and Sweep rows of a load
DataRow(mg, loadid) == [MeasGroup |-> mg, loadid |-> loadid]
RexRow(matid, mg, full) == [matid |-> matid, MeasGroup |-> mg, full_reload |-> full]
ReaRow(matid, an) == [matid |-> matid, analysis |-> an]
\* an Analysis row of one die: a load id per dependency (NULL for an absent
\* optional one); copy numbers the equal rows, the table has no unique key
AnlRow(an, lids, copy) == [analysis |-> an, loadids |-> lids, copy |-> copy]
DieRow(dieid, mask, xy, geom) == [dieid |-> dieid, Mask |-> mask, DieXY |-> xy, geom |-> geom]

\* what the generators of CONFIG['diemaps'] return, in configuration order
GenRow(mask, xy, geom) == [Mask |-> mask, DieXY |-> xy, geom |-> geom]
ConfiguredDies == <<GenRow("mkA", "x1", 1)>>

EmptyDb ==
    [live |-> [t \in Tables |-> "absent"],
     mat |-> {}, loads |-> {}, meas |-> {}, extr |-> {}, sweep |-> {}, anl |-> {},
     rex |-> {}, rea |-> {}, masks |-> {}, dies |-> <<>>,
     layout |-> [g \in Groups |-> 0]]

\* the database right after get_database() on an empty server
FreshDb ==
    [EmptyDb EXCEPT !.live = [t \in Tables |-> "ok"],
                    !.masks = {"mkA"},
                    !.dies = [i \in 1..Len(ConfiguredDies) |->
                                 DieRow(i - 1, ConfiguredDies[i].Mask,
                                        ConfiguredDies[i].DieXY, ConfiguredDies[i].geom)],
                    !.layout = [g \in Groups |-> 1]]

Session(d, cat, sq) ==
    [c |-> d, d |-> d, cat |-> cat, seq |-> sq, failed |-> FALSE, ret |-> NULL,
     lids |-> [g \in Groups |-> NULL], pushed |-> {}, created |-> FALSE, raised |-> NoTab,
     at |-> "-", mid |-> <<>>, log |-> <<>>]

\* a statement's result under the name the statements after it use
Bind(R, rest(_)) == rest(R)

Fail(S) == [S EXCEPT !.failed = TRUE]
\* an exception raised by the server or the driver right after step k
Inject(S, failAt, k) == IF ~S.failed /\ failAt = k THEN Fail(S) ELSE S
\* conn.commit()
Commit(S) == IF S.failed THEN S ELSE [S EXCEPT !.d = S.c]
\* with self.engine.connect() as conn: a new connection sees the committed state
Connect(S) == [S EXCEPT !.c = S.d, !.ret = NULL, !.lids = [g \in Groups |-> NULL]]

(***************************************************************************)
(* Deletes and the ON DELETE CASCADE foreign keys of the schema            *)
(***************************************************************************)
\* variant: the Extr table without its foreign key into Meas
DeleteMeasRows_NoExtrKey(c, rows) ==
    [c EXCEPT !.meas = @ \ rows, !.sweep = @ \ rows]

\* DELETE of Meas rows: Extr and Sweep reference Meas (loadid, measid) with
\* ON DELETE CASCADE
DeleteMeasRows(c, rows) ==
    [c EXCEPT !.meas = @ \ rows, !.extr = @ \ rows, !.sweep = @ \ rows]

\* DELETE of Loads rows: Meas.loadid and every "loadid - {group}" column of an
\* Analysis table reference Loads.loadid with ON DELETE CASCADE
DeleteLoadRows(c, rows) ==
    LET ids == {l.loadid : l \in rows}
        c1 == DeleteMeasRows(c, {r \in c.meas : r.loadid \in ids})
    IN [c1 EXCEPT !.loads = @ \ rows,
                  !.anl = {r \in @ : \A g \in DOMAIN r.loadids : r.loadids[g] \notin ids}]

\* DELETE of Materials rows: Loads, ReExtract and ReAnalyze reference
\* Materials.matid with ON DELETE CASCADE
DeleteMaterialRows(c, rows) ==
    LET ids == {m.matid : m \in rows}
        c1 == DeleteLoadRows(c, {l \in c.loads : l.matid \in ids})
    IN [c1 EXCEPT !.mat = @ \ rows,
                  !.rex = {r \in @ : r.matid \notin ids},
                  !.rea = {r \in @ : r.matid \notin ids}]

MatByName(c, name) == {m \in c.mat : m.name = name}
Pick(set) == CHOOSE x \in set : TRUE

(***************************************************************************)
(* drop_material, enter_material                                           *)
(***************************************************************************)
\* drop_material(material_info, conn, only_meas_group=None): deletes the
\* Materials row and returns its date_user_changed (None if there was none).
drop_material_all(S, name) ==
    IF S.failed THEN S
    ELSE IF S.cat[CoreTab("Materials")] = "absent" \/ S.c.live[CoreTab("Materials")] = "absent"
    THEN Fail(S)
    ELSE LET rows == MatByName(S.c, name)
         IN [S EXCEPT !.c = DeleteMaterialRows(S.c, rows),
                      !.ret = IF rows = {} THEN NULL ELSE Pick(rows).date_user_changed]

\* variant: the delete without its MeasGroup condition
drop_material_group_NoGroup(S, name, mg) ==
    IF S.failed THEN S
    ELSE LET mids == {m.matid : m \in MatByName(S.c, name)}
         IN [S EXCEPT !.c = DeleteLoadRows(S.c, {l \in S.c.loads : l.matid \in mids})]

\* drop_material(material_info, conn, only_meas_group=mg): deletes the Load of
\* exactly this material and group.
drop_material_group(S, name, mg) ==
    IF S.failed THEN S
    ELSE IF S.cat[CoreTab("Loads")] = "absent" \/ S.c.live[CoreTab("Loads")] = "absent"
            \/ S.cat[CoreTab("Materials")] = "absent" \/ S.c.live[CoreTab("Materials")] = "absent"
    THEN Fail(S)
    ELSE LET mids == {m.matid : m \in MatByName(S.c, name)}
         IN [S EXCEPT !.c = DeleteLoadRows(S.c,
                 {l \in S.c.loads : l.matid \in mids /\ l.MeasGroup = mg})]

\* variant: the upsert taken for system calls too
enter_material_AlwaysUpsert(S, name, user_called, tnow) ==
    IF S.failed THEN S
    ELSE LET rows == MatByName(S.c, name)
             matid == IF rows # {} THEN Pick(rows).matid ELSE S.seq.mat
         IN [S EXCEPT !.c.mat = (@ \ rows) \cup {MatRow(name, matid, tnow)},
                      !.seq.mat = @ + 1,
                      !.ret = matid]

\* enter_material(conn, user_called, **material_info): returns matid in S.ret.
\* A user call upserts by full name with date_user_changed = now(); nextval of
\* the matid serial is taken whether or not the row conflicts.
enter_material(S, name, user_called, tnow) ==
    IF S.failed THEN S
    ELSE IF S.cat[CoreTab("Materials")] = "absent" \/ S.c.live[CoreTab("Materials")] = "absent"
    THEN Fail(S)
    ELSE LET rows == MatByName(S.c, name)
         IN IF ~user_called
            THEN IF rows # {} THEN [S EXCEPT !.ret = Pick(rows).matid]
                 ELSE Fail(S)   \* "ran across unrecognized material"
            ELSE IF MaskOf[name] \notin S.c.masks
                 THEN Fail([S EXCEPT !.seq.mat = @ + 1])      \* fk_mask
                 ELSE LET matid == IF rows # {} THEN Pick(rows).matid ELSE S.seq.mat
                      IN [S EXCEPT !.c.mat = (@ \ rows) \cup {MatRow(name, matid, tnow)},
                                   !.seq.mat = @ + 1,
                                   !.ret = matid]

(***************************************************************************)
(* Bulk uploads                                                            *)
(***************************************************************************)
Usable(S, t) == S.cat[t] # "absent" /\ S.c.live[t] # "absent"

\* variant: the conn.commit() that is commented out in _upload_csv
_upload_csv_Committing(S, t, c2, accepted) ==
    IF S.failed THEN S
    ELSE IF ~Usable(S, t) \/ ~accepted THEN Fail(S)
    ELSE [S EXCEPT !.c = c2, !.d = c2]

\* _upload_csv(df, conn, schema, table): COPY ... FROM STDIN of the rows that
\* turn the connection's view into c2; accepted says no constraint of the
\* table rejects them.  It does not commit.
_upload_csv(S, t, c2, accepted) ==
    IF S.failed THEN S
    ELSE IF ~Usable(S, t) \/ ~accepted THEN Fail(S)
    ELSE [S EXCEPT !.c = c2]

\* _upload_binary(df, conn, schema, table): COPY ... FROM STDIN BINARY
_upload_binary(S, t, c2, accepted) ==
    IF S.failed THEN S
    ELSE IF ~Usable(S, t) \/ ~accepted THEN Fail(S)
    ELSE [S EXCEPT !.c = c2]

LoadIds(c) == {l.loadid : l \in c.loads}
HasDies(c, mask) == \E i \in 1..Len(c.dies) : c.dies[i].Mask = mask

(***************************************************************************)
(* perform_analyses                                                        *)
(***************************************************************************)
AnalysisLoadIds(an, lids) ==
    [g \in required_dependencies[an] \cup attempt_dependencies[an] |-> lids[g]]

\* variant: the required frames and load ids read like the optional ones,
\* with .get(k, None)
perform_one_analysis_AllOptional(S, an, datagroups, lids, matid, mask) ==
    IF S.failed THEN S
    ELSE LET al == AnalysisLoadIds(an, lids)
             same == {r \in S.c.anl : r.analysis = an /\ r.loadids = al}
             row == AnlRow(an, al, Cardinality(same) + 1)
             U == _upload_csv(S, Tab("Analysis", an),
                              [S.c EXCEPT !.anl = @ \cup {row}],
                              /\ HasDies(S.c, mask)
                              /\ \A g \in DOMAIN al : al[g] = NULL \/ al[g] \in LoadIds(S.c))
         IN IF U.failed THEN U
            ELSE IF ~Usable(U, CoreTab("ReAnalyze")) THEN Fail(U)
            ELSE [U EXCEPT !.c.rea = @ \ {ReaRow(matid, an)}]

\* variant: the ReAnalyze row is left in place after the upload
perform_one_analysis_KeepMarker(S, an, datagroups, lids, matid, mask) ==
    IF S.failed THEN S
    ELSE IF ~(required_dependencies[an] \subseteq datagroups) THEN Fail(S)
    ELSE IF \E g \in required_dependencies[an] : lids[g] = NULL THEN Fail(S)
    ELSE LET al == AnalysisLoadIds(an, lids)
             same == {r \in S.c.anl : r.analysis = an /\ r.loadids = al}
             row == AnlRow(an, al, Cardinality(same) + 1)
         IN _upload_csv(S, Tab("Analysis", an),
                        [S.c EXCEPT !.anl = @ \cup {row}],
                        /\ HasDies(S.c, mask)
                        /\ \A g \in DOMAIN al : al[g] = NULL \/ al[g] \in LoadIds(S.c))

\* one iteration of "for an in analyses": run the analysis function on the
\* required and optional frames, upload its rows, clear the ReAnalyze row
perform_one_analysis(S, an, datagroups, lids, matid, mask) ==
    IF S.failed THEN S
    ELSE IF ~(required_dependencies[an] \subseteq datagroups) THEN Fail(S)   \* mg_to_data[k]
    ELSE IF \E g \in required_dependencies[an] : lids[g] = NULL THEN Fail(S) \* precollected_loadids[mg]
    ELSE LET al == AnalysisLoadIds(an, lids)
             same == {r \in S.c.anl : r.analysis = an /\ r.loadids = al}
             row == AnlRow(an, al, Cardinality(same) + 1)
             U == _upload_csv(S, Tab("Analysis", an),
                              [S.c EXCEPT !.anl = @ \cup {row}],
                              /\ HasDies(S.c, mask)
                              /\ \A g \in DOMAIN al : al[g] = NULL \/ al[g] \in LoadIds(S.c))
         IN IF U.failed THEN U
            ELSE IF ~Usable(U, CoreTab("ReAnalyze")) THEN Fail(U)
            ELSE [U EXCEPT !.c.rea = @ \ {ReaRow(matid, an)}]

RECURSIVE perform_analyses_loop(_, _, _, _, _, _, _)
perform_analyses_loop(S, order, analyses, datagroups, lids, matid, mask) ==
    IF order = <<>> THEN S
    ELSE perform_analyses_loop(
            IF Head(order) \in analyses
            THEN perform_one_analysis(S, Head(order), datagroups, lids, matid, mask)
            ELSE S,
            Tail(order), analyses, datagroups, lids, matid, mask)

\* perform_analyses(conn, analyses, precollected_data_by_meas_group,
\*                  precollected_loadids, precollected_matid)
perform_analyses(S, analyses, datagroups, lids, matid) ==
    IF S.failed THEN S
    ELSE IF ~Usable(S, CoreTab("Materials")) \/ ~Usable(S, CoreTab("Dies")) THEN Fail(S)
    ELSE LET rows == {m \in S.c.mat : m.matid = matid}
         IN IF rows = {} THEN Fail(S)      \* .all()[0][0]
            ELSE perform_analyses_loop(S, AnalysisOrder, analyses, datagroups, lids, matid,
                                       MaskOf[Pick(rows).name])

(***************************************************************************)
(* push_data                                                               *)
(***************************************************************************)
\* the points where an exception of the server or the driver is injected:
\* 0 none, 1 after drop_material, 2 after enter_material, 3 after the
\* ReAnalyze inserts, 4 after the Loads insert, 5 after the Meas and Sweep
\* uploads, 6 after the Extr upload, 7 after the ReExtract delete, 8 after
\* perform_analyses (before the commit)
FailPoints == 0..8

\* "Invalidate the relevant analyses": plain INSERTs into ReAnalyze
invalidate_analyses(S, matid, analyses) ==
    IF S.failed \/ analyses = {} THEN S
    ELSE IF ~Usable(S, CoreTab("ReAnalyze")) THEN Fail(S)
    ELSE IF \E a \in analyses : ReaRow(matid, a) \in S.c.rea THEN Fail(S)  \* UNIQUE(matid, analysis)
    ELSE [S EXCEPT !.c.rea = @ \cup {ReaRow(matid, a) : a \in analyses}]

\* INSERT INTO Loads ... RETURNING loadid
insert_load(S, matid, mg) ==
    IF S.failed THEN S
    ELSE IF ~Usable(S, CoreTab("Loads")) THEN Fail(S)
    ELSE IF \/ \E l \in S.c.loads : l.matid = matid /\ l.MeasGroup = mg   \* UNIQUE(matid, MeasGroup)
            \/ ~\E m \in S.c.mat : m.matid = matid
         THEN Fail([S EXCEPT !.seq.load = @ + 1])
         ELSE [S EXCEPT !.c.loads = @ \cup {LoadRow(S.seq.load, matid, mg)},
                        !.seq.load = @ + 1,
                        !.ret = S.seq.load]

\* variant: the delete without its full_reload condition
clear_reextract_AnyFlag(S, mg, loadid, re_extraction) ==
    IF S.failed THEN S
    ELSE IF ~Usable(S, CoreTab("ReExtract")) \/ ~Usable(S, CoreTab("Loads")) THEN Fail(S)
    ELSE [S EXCEPT !.c.rex =
            {r \in @ : ~(/\ r.MeasGroup = mg
                         /\ \E l \in S.c.loads : l.loadid = loadid /\ l.matid = r.matid)}]

\* "we can drop this matid, MeasGroup from the refreshes table"
clear_reextract(S, mg, loadid, re_extraction) ==
    IF S.failed THEN S
    ELSE IF ~Usable(S, CoreTab("ReExtract")) \/ ~Usable(S, CoreTab("Loads")) THEN Fail(S)
    ELSE [S EXCEPT !.c.rex =
            {r \in @ : ~(/\ r.MeasGroup = mg
                         /\ \E l \in S.c.loads : l.loadid = loadid /\ l.matid = r.matid
                         /\ (re_extraction => r.full_reload = FALSE))}]

\* the body of "for meas_group, mt_or_df in data_by_meas_group.items()" for a
\* MeasurementTable; lidIn is the loadid column of a re-extracted table
push_group(S, name, matid, mg, lidIn, clear, re_extraction, failAt) ==
    Bind(IF re_extraction THEN S
         ELSE Inject(insert_load(IF clear THEN S ELSE drop_material_group(S, name, mg),
                                 matid, mg), failAt, 4),
      LAMBDA B1 :
        LET newid == B1.ret
            row1 == DataRow(mg, newid)
            loadid == IF re_extraction THEN lidIn ELSE newid
            row == DataRow(mg, loadid)
        IN
    Bind(IF re_extraction THEN B1
         ELSE Bind(_upload_csv(B1, Tab("Meas", mg),
                       [B1.c EXCEPT !.meas = @ \cup {row1}],
                       /\ row1 \notin B1.c.meas
                       /\ newid \in LoadIds(B1.c)
                       /\ B1.c.layout[mg] # 0
                       /\ HasDies(B1.c, MaskOf[name])),
                LAMBDA M :
                   Inject(_upload_binary(M, Tab("Sweep", mg),
                             [M.c EXCEPT !.sweep = @ \cup {row1}],
                             row1 \notin M.c.sweep /\ row1 \in M.c.meas), failAt, 5)),
      LAMBDA B2 :
    Bind(Inject(_upload_csv(B2, Tab("Extr", mg),
                    [B2.c EXCEPT !.extr = @ \cup {row}],
                    row \notin B2.c.extr /\ row \in B2.c.meas), failAt, 6),
      LAMBDA B3 :
    Bind(Inject(clear_reextract(B3, mg, loadid, re_extraction), failAt, 7),
      LAMBDA B4 :
        IF B4.failed THEN B4 ELSE [B4 EXCEPT !.lids[mg] = loadid]))))

\* variant: the material dropped before the re_extraction assertion
push_clear_DropFirst(S, name, clear, re_extraction, failAt) ==
    IF ~clear THEN S
    ELSE Bind(Inject(drop_material_all(S, name), failAt, 1),
           LAMBDA D : IF re_extraction THEN Fail(D) ELSE D)

\* variant: the material dropped whatever clear_all_from_material says
push_clear_Always(S, name, clear, re_extraction, failAt) ==
    IF re_extraction THEN (IF clear THEN Fail(S) ELSE S)
    ELSE Inject(drop_material_all(S, name), failAt, 1)

\* "If clear material, then drop this material from the database before
\* beginning": the assertion comes before drop_material
push_clear(S, name, clear, re_extraction, failAt) ==
    IF ~clear THEN S
    ELSE IF re_extraction THEN Fail(S)
    ELSE Inject(drop_material_all(S, name), failAt, 1)

RECURSIVE push_groups(_, _, _, _, _, _, _, _, _)
push_groups(S, order, name, matid, gs, lidsIn, clear, re_extraction, failAt) ==
    IF order = <<>> THEN S
    ELSE push_groups(
            IF Head(order) \in gs
            THEN push_group(S, name, matid, Head(order), lidsIn[Head(order)],
                            clear, re_extraction, failAt)
            ELSE S,
            Tail(order), name, matid, gs, lidsIn, clear, re_extraction, failAt)

\* push_data(material_info, data_by_meas_group, clear_all_from_material,
\*           user_called, re_extraction): gs are the keys of data_by_meas_group
push_data(S0, name, gs, lidsIn, clear, user_called, re_extraction, failAt, tnow) ==
    Bind(IF user_called /\ re_extraction THEN Fail(S0) ELSE Connect(S0),
      LAMBDA A0 :
    Bind(push_clear(A0, name, clear, re_extraction, failAt),
      LAMBDA A1 :
    Bind(Inject(enter_material(A1, name, user_called, tnow), failAt, 2),
      LAMBDA A2 :
        LET matid == A2.ret
            analyses == get_dependent_analyses(gs)
        IN
    Bind(push_groups(Inject(invalidate_analyses(A2, matid, analyses), failAt, 3),
                     GroupOrder, name, matid, gs, lidsIn, clear, re_extraction, failAt),
      LAMBDA A4 :
    Bind(Commit(Inject(perform_analyses(A4, analyses, gs, A4.lids, matid), failAt, 8)),
      LAMBDA A6 :
        IF A6.failed THEN A6 ELSE [A6 EXCEPT !.pushed = @ \cup {<<name, g>> : g \in gs}])))))

(***************************************************************************)
(* dump_extractions, dump_measurements, dump_higher_analysis               *)
(***************************************************************************)
MatidsOfRows(c, rows) ==
    {l.matid : l \in {x \in c.loads : \E r \in rows : r.loadid = x.loadid}}

\* INSERT INTO "ReExtract" ... SELECT DISTINCT ... ON CONFLICT DO NOTHING
queue_reextract(c, matids, mg, full) ==
    [c EXCEPT !.rex = @ \cup
        {RexRow(i, mg, full) : i \in {j \in matids :
              ~\E r \in c.rex : r.matid = j /\ r.MeasGroup = mg}}]

\* dump_extractions(measurement_group, conn)
dump_extractions(S, mg) ==
    IF S.failed THEN S
    ELSE IF _mgt(S.cat, mg, "Extr") = "absent" THEN S
    ELSE IF _mgt(S.cat, mg, "Meas") = "absent" THEN S
    ELSE IF \E t \in {Tab("Extr", mg), Tab("Meas", mg), CoreTab("Loads"), CoreTab("ReExtract")} :
                ~Usable(S, t)
    THEN Fail(S)
    ELSE LET rows == {r \in S.c.extr : r.MeasGroup = mg /\ r \in S.c.meas}
             c1 == queue_reextract(S.c, MatidsOfRows(S.c, rows), mg, FALSE)
         IN [S EXCEPT !.c = [c1 EXCEPT !.extr = {r \in @ : r.MeasGroup # mg}]]

\* dump_measurements(measurement_group, conn)
dump_measurements(S, mg) ==
    IF S.failed THEN S
    ELSE IF _mgt(S.cat, mg, "Meas") = "absent" THEN S
    ELSE IF \E t \in {Tab("Meas", mg), CoreTab("Loads"), CoreTab("ReExtract")} : ~Usable(S, t)
    THEN Fail(S)
    ELSE LET rows == {r \in S.c.meas : r.MeasGroup = mg}
             c1 == queue_reextract(S.c, MatidsOfRows(S.c, rows), mg, TRUE)
         IN [S EXCEPT !.c = DeleteMeasRows(c1, rows)]

\* dump_higher_analysis(analysis, conn): an_tab.join(self._loadtab) has no ON
\* clause, and SQLAlchemy refuses to guess one unless exactly one foreign key
\* links the two tables
dump_higher_analysis(S, an) ==
    IF S.failed THEN S
    ELSE IF _hat(S.cat, an) = "absent" THEN S
    ELSE IF ~Usable(S, CoreTab("ReAnalyze")) \/ ~Usable(S, CoreTab("Loads")) THEN Fail(S)
    ELSE IF Cardinality(required_dependencies[an] \cup attempt_dependencies[an]) # 1
    THEN Fail(S)
    ELSE LET rows == {r \in S.c.anl : r.analysis = an}
             ids == {r.loadids[g] : r \in rows, g \in required_dependencies[an]
                                                       \cup attempt_dependencies[an]}
             matids == {l.matid : l \in {x \in S.c.loads : x.loadid \in ids}}
         IN [S EXCEPT !.c.rea = @ \cup {ReaRow(i, an) : i \in matids},
                      !.c.anl = @ \ rows]

(***************************************************************************)
(* clear_database, _ensure_table_exists                                    *)
(***************************************************************************)
\* DROP TABLE t CASCADE: the table goes with its rows; of the tables that
\* reference it only the constraints go, their rows stay
DropTable(c, t) ==
    LET c1 == [c EXCEPT !.live[t] = "absent"]
    IN CASE t = CoreTab("Materials") -> [c1 EXCEPT !.mat = {}]
         [] t = CoreTab("Loads") -> [c1 EXCEPT !.loads = {}]
         [] t = CoreTab("ReExtract") -> [c1 EXCEPT !.rex = {}]
         [] t = CoreTab("ReAnalyze") -> [c1 EXCEPT !.rea = {}]
         [] t = CoreTab("Masks") -> [c1 EXCEPT !.masks = {}]
         [] t = CoreTab("Dies") -> [c1 EXCEPT !.dies = <<>>]
         [] t[1] = "Layout" -> [c1 EXCEPT !.layout[t[2]] = 0]
         [] t[1] = "Meas" -> [c1 EXCEPT !.meas = {r \in @ : r.MeasGroup # t[2]}]
         [] t[1] = "Extr" -> [c1 EXCEPT !.extr = {r \in @ : r.MeasGroup # t[2]}]
         [] t[1] = "Sweep" -> [c1 EXCEPT !.sweep = {r \in @ : r.MeasGroup # t[2]}]
         [] t[1] = "Analysis" -> [c1 EXCEPT !.anl = {r \in @ : r.analysis # t[2]}]

RECURSIVE DropTables(_, _)
DropTables(c, ts) ==
    IF ts = {} THEN c ELSE LET t == Pick(ts) IN DropTables(DropTable(c, t), ts \ {t})

\* clear_database(only_tables, conn) on the caller's connection; an empty
\* only_tables is falsy and selects every table of the catalog
clear_database(S, only_tables) ==
    IF S.failed THEN S
    ELSE LET known == {t \in Tables : S.cat[t] # "absent"}
             removed == IF only_tables = {} THEN known ELSE known \cap only_tables
         IN IF \E t \in removed : S.c.live[t] = "absent" THEN Fail(S)  \* DROP of a missing table
            ELSE LET R == [S EXCEPT !.c = DropTables(S.c, removed),
                                    !.cat = [t \in Tables |-> IF t \in removed THEN "absent"
                                                              ELSE S.cat[t]]]
                 IN IF only_tables # {} /\ removed # only_tables THEN Fail(R) ELSE R

\* variant: the Extr callback clearing the whole group like the Meas callback
extr_replacement_callback_WholeGroup(S, mg) ==
    clear_database(dump_extractions(S, mg),
                   {t \in {Tab(w, mg) : w \in {"Meas", "Extr", "Sweep"}} : S.cat[t] # "absent"})

\* the callbacks establish_measurement_group_tables and
\* establish_higher_analysis_tables put in place of 'replace'
meas_replacement_callback(S, mg) ==
    Bind(dump_measurements(S, mg),
      LAMBDA D :
        clear_database(D, {t \in {Tab(w, mg) : w \in {"Meas", "Extr", "Sweep"}} :
                              D.cat[t] # "absent"}))

extr_replacement_callback(S, mg) ==
    clear_database(dump_extractions(S, mg), {Tab("Extr", mg)})

replacement_callback(S, an) ==
    clear_database(dump_higher_analysis(S, an), {Tab("Analysis", an)})

\* on_mismatch as establish_database can be given it, and as it reaches
\* _ensure_table_exists: "callable" is a function of the caller (one that
\* logs and returns), "other" any other string
Policies == {"raise", "replace", "callable", "other"}

\* variant: 'raise' handled like 'replace'
_ensure_table_exists_NoRaise(S, t, on_mismatch) ==
    IF S.failed THEN S
    ELSE Bind(IF S.cat[t] # "old" THEN S ELSE clear_database(S, {t}),
           LAMBDA A :
             IF A.failed THEN A
             ELSE IF A.cat[t] # "absent" THEN [A EXCEPT !.created = FALSE]
             ELSE [A EXCEPT !.cat[t] = "ok", !.c.live[t] = "ok", !.created = TRUE])

\* variant: 'replace' leaves the mismatching table in place
_ensure_table_exists_KeepOld(S, t, on_mismatch) ==
    IF S.failed THEN S
    ELSE Bind(IF S.cat[t] # "old" THEN S
              ELSE CASE on_mismatch = "raise" -> Fail([S EXCEPT !.raised = t])
                     [] on_mismatch = "replace" -> S
                     [] on_mismatch = "meas_replacement_callback" ->
                            meas_replacement_callback(S, t[2])
                     [] on_mismatch = "extr_replacement_callback" ->
                            extr_replacement_callback(S, t[2])
                     [] on_mismatch = "replacement_callback" ->
                            replacement_callback(S, t[2])
                     [] on_mismatch = "callable" -> S
                     [] OTHER -> Fail(S),
           LAMBDA A :
             IF A.failed THEN A
             ELSE IF A.cat[t] # "absent"
                  THEN [A EXCEPT !.created = FALSE,
                                 !.log = Append(@, [ev |-> "_ensure_table_exists", name |-> t,
                                                    was |-> S.cat[t], on_mismatch |-> on_mismatch,
                                                    on_init |-> FALSE, tab |-> A.cat[t]])]
             ELSE IF A.c.live[t] # "absent"
                  THEN Fail([A EXCEPT !.cat[t] = "ok"])
                  ELSE [A EXCEPT !.cat[t] = "ok", !.c.live[t] = "ok", !.created = TRUE,
                                 !.log = Append(@, [ev |-> "_ensure_table_exists", name |-> t,
                                                    was |-> S.cat[t], on_mismatch |-> on_mismatch,
                                                    on_init |-> TRUE, tab |-> "ok"])])

\* _ensure_table_exists(conn, schema, table_name, *args, on_mismatch, on_init):
\* S.created tells the caller to run on_init, S.raised names the table whose
\* mismatch was raised; the log gets the call as it returns: the definition
\* the catalog had for the table, whether on_init was reached, and the
\* definition of the table returned
_ensure_table_exists(S, t, on_mismatch) ==
    IF S.failed THEN S
    ELSE Bind(IF S.cat[t] # "old" THEN S
              ELSE CASE on_mismatch = "raise" -> Fail([S EXCEPT !.raised = t])
                     [] on_mismatch = "replace" -> clear_database(S, {t})
                     [] on_mismatch = "meas_replacement_callback" ->
                            meas_replacement_callback(S, t[2])
                     [] on_mismatch = "extr_replacement_callback" ->
                            extr_replacement_callback(S, t[2])
                     [] on_mismatch = "replacement_callback" ->
                            replacement_callback(S, t[2])
                     [] on_mismatch = "callable" -> S
                     [] OTHER -> Fail(S),
           LAMBDA A :
             IF A.failed THEN A
             ELSE IF A.cat[t] # "absent"
                  THEN [A EXCEPT !.created = FALSE,
                                 !.log = Append(@, [ev |-> "_ensure_table_exists", name |-> t,
                                                    was |-> S.cat[t], on_mismatch |-> on_mismatch,
                                                    on_init |-> FALSE, tab |-> A.cat[t]])]
             ELSE IF A.c.live[t] # "absent"
                  THEN Fail([A EXCEPT !.cat[t] = "ok"])       \* CREATE TABLE: already exists
                  ELSE [A EXCEPT !.cat[t] = "ok", !.c.live[t] = "ok", !.created = TRUE,
                                 !.log = Append(@, [ev |-> "_ensure_table_exists", name |-> t,
                                                    was |-> S.cat[t], on_mismatch |-> on_mismatch,
                                                    on_init |-> TRUE, tab |-> "ok"])])

(***************************************************************************)
(* Masks and Dies                                                          *)
(***************************************************************************)
\* ALTER TABLE ... ADD CONSTRAINT "fk_dieid" on the Meas and Analysis tables
\* that lack it: PostgreSQL validates the rows the tables hold
ensure_die_constraint(S) ==
    IF S.failed THEN S
    ELSE IF \E m \in S.c.mat :
               /\ ~HasDies(S.c, MaskOf[m.name])
               /\ \E l \in S.c.loads : l.matid = m.matid /\ \E r \in S.c.meas : r.loadid = l.loadid
         THEN Fail(S)
         ELSE S

\* variant: the Masks row replaced (deleted and inserted) instead of updated
upsert_mask_Replace(c, mask) ==
    [c EXCEPT !.masks = @ \cup {mask},
              !.dies = SelectSeq(@, LAMBDA r : r.Mask # mask)]

\* INSERT INTO "Masks" ... ON CONFLICT (Mask) DO UPDATE
upsert_mask(c, mask) == [c EXCEPT !.masks = @ \cup {mask}]

RECURSIVE upsert_masks(_, _)
upsert_masks(c, gen) ==
    IF gen = <<>> THEN c ELSE upsert_masks(upsert_mask(c, Head(gen).Mask), Tail(gen))

\* variant: the whole generated table uploaded, not the rows past the stored
\* count
update_mask_info_UploadAll(S, gen) ==
    IF S.failed THEN S
    ELSE IF ~Usable(S, CoreTab("Masks")) THEN Fail(S)
    ELSE IF gen = <<>> THEN Fail(S)
    ELSE LET M == [S EXCEPT !.c = upsert_masks(S.c, gen)]
             previous_dietab == M.c.dies
             k == Len(previous_dietab)
             merged == {i \in 1..k :
                          /\ i <= Len(gen)
                          /\ gen[i] = GenRow(previous_dietab[i].Mask, previous_dietab[i].DieXY,
                                             previous_dietab[i].geom)}
             all == previous_dietab \o
                        [i \in 1..Len(gen) |->
                            DieRow(i - 1, gen[i].Mask, gen[i].DieXY, gen[i].geom)]
         IN IF ~Usable(M, CoreTab("Dies")) THEN Fail(M)
            ELSE IF Cardinality(merged) # k THEN Fail(M)
            ELSE ensure_die_constraint(
                    _upload_csv(M, CoreTab("Dies"), [M.c EXCEPT !.dies = all],
                        \A i, j \in 1..Len(all) :
                            i # j => /\ all[i].dieid # all[j].dieid
                                     /\ <<all[i].Mask, all[i].DieXY>> # <<all[j].Mask, all[j].DieXY>>))

\* variant: the rows uploaded without the comparison with the stored table
update_mask_info_NoCheck(S, gen) ==
    IF S.failed THEN S
    ELSE IF ~Usable(S, CoreTab("Masks")) THEN Fail(S)
    ELSE IF gen = <<>> THEN Fail(S)
    ELSE LET M == [S EXCEPT !.c = upsert_masks(S.c, gen)]
             previous_dietab == M.c.dies
             k == Len(previous_dietab)
             all == [i \in 1..(IF Len(gen) > k THEN Len(gen) ELSE k) |->
                        IF i <= k THEN previous_dietab[i]
                        ELSE DieRow(i - 1, gen[i].Mask, gen[i].DieXY, gen[i].geom)]
         IN IF ~Usable(M, CoreTab("Dies")) THEN Fail(M)
            ELSE ensure_die_constraint(
                    _upload_csv(M, CoreTab("Dies"), [M.c EXCEPT !.dies = all],
                        \A i, j \in 1..Len(all) :
                            i # j => /\ all[i].dieid # all[j].dieid
                                     /\ <<all[i].Mask, all[i].DieXY>> # <<all[j].Mask, all[j].DieXY>>))

\* variant: a stored row is matched by an equal generated row at any position
update_mask_info_ByPresence(S, gen) ==
    IF S.failed THEN S
    ELSE IF ~Usable(S, CoreTab("Masks")) THEN Fail(S)
    ELSE IF gen = <<>> THEN Fail(S)
    ELSE LET M == [S EXCEPT !.c = upsert_masks(S.c, gen)]
             previous_dietab == M.c.dies
             k == Len(previous_dietab)
             merged == {i \in 1..k : \E j \in 1..Len(gen) :
                          gen[j] = GenRow(previous_dietab[i].Mask, previous_dietab[i].DieXY,
                                          previous_dietab[i].geom)}
             all == [i \in 1..(IF Len(gen) > k THEN Len(gen) ELSE k) |->
                        IF i <= k THEN previous_dietab[i]
                        ELSE DieRow(i - 1, gen[i].Mask, gen[i].DieXY, gen[i].geom)]
         IN IF ~Usable(M, CoreTab("Dies")) THEN Fail(M)
            ELSE IF Cardinality(merged) # k THEN Fail(M)
            ELSE ensure_die_constraint(
                    _upload_csv(M, CoreTab("Dies"), [M.c EXCEPT !.dies = all],
                        \A i, j \in 1..Len(all) :
                            i # j => /\ all[i].dieid # all[j].dieid
                                     /\ <<all[i].Mask, all[i].DieXY>> # <<all[j].Mask, all[j].DieXY>>))

\* update_mask_info(conn): gen is the concatenation of the generators' tables.
\* Both frames get their row position as column "index", so the merge pairs
\* the i-th stored row (Dies is read in the order it was filled) with the
\* i-th generated row; the rows past the stored count are uploaded with
\* their position as dieid.
update_mask_info(S, gen) ==
    IF S.failed THEN S
    ELSE IF ~Usable(S, CoreTab("Masks")) THEN Fail(S)
    ELSE IF gen = <<>> THEN Fail(S)                      \* pd.concat([])
    ELSE LET M == [S EXCEPT !.c = upsert_masks(S.c, gen)]
             previous_dietab == M.c.dies
             k == Len(previous_dietab)
             merged == {i \in 1..k :
                          /\ i <= Len(gen)
                          /\ gen[i] = GenRow(previous_dietab[i].Mask, previous_dietab[i].DieXY,
                                             previous_dietab[i].geom)}
             all == [i \in 1..(IF Len(gen) > k THEN Len(gen) ELSE k) |->
                        IF i <= k THEN previous_dietab[i]
                        ELSE DieRow(i - 1, gen[i].Mask, gen[i].DieXY, gen[i].geom)]
         IN IF ~Usable(M, CoreTab("Dies")) THEN Fail(M)
            ELSE IF Cardinality(merged) # k THEN Fail(M)   \* "Can't add to die tables ..."
            ELSE ensure_die_constraint(
                    _upload_csv(M, CoreTab("Dies"), [M.c EXCEPT !.dies = all],
                        \A i, j \in 1..Len(all) :
                            i # j => /\ all[i].dieid # all[j].dieid
                                     /\ <<all[i].Mask, all[i].DieXY>> # <<all[j].Mask, all[j].DieXY>>))

\* establish_mask_tables(conn, on_mismatch): S.created is needs_update
establish_mask_tables(S, on_mismatch) ==
    Bind(_ensure_table_exists(S, CoreTab("Masks"), on_mismatch),
      LAMBDA A :
    Bind(_ensure_table_exists(A, CoreTab("Dies"), on_mismatch),
      LAMBDA B :
        IF B.failed THEN B ELSE [B EXCEPT !.created = A.created \/ B.created]))

(***************************************************************************)
(* Layout parameters                                                       *)
(***************************************************************************)
RECURSIVE establish_layout_parameters(_, _, _)
RECURSIVE update_layout_parameters(_, _)

\* establish_layout_parameters(layout_params, measurement_group, conn,
\* on_mismatch): on_init is update_layout_parameters
establish_layout_parameters(S, mg, on_mismatch) ==
    Bind(_ensure_table_exists(S, Tab("Layout", mg), on_mismatch),
      LAMBDA E :
        IF E.failed \/ ~E.created THEN E ELSE update_layout_parameters(E, mg))

\* variant: the table dropped and created anew in place of the call of
\* establish_layout_parameters
update_layout_parameters_Recreate(S, mg) ==
    Bind(_ensure_table_exists(clear_database(S, {Tab("Layout", mg)}), Tab("Layout", mg),
                              "replace"),
      LAMBDA A :
        IF A.failed THEN A
        ELSE IF ~Usable(A, Tab("Layout", mg)) THEN Fail(A)
        ELSE IF A.c.layout[mg] = 1 THEN Commit(A)
        ELSE Bind(dump_extractions(A, mg),
               LAMBDA D :
                 IF D.failed THEN D
                 ELSE Commit([D EXCEPT !.c.layout[mg] = 1,
                                       !.log = Append(@, [ev |-> "INSERT INTO Layout",
                                                          name |-> Tab("Layout", mg)])])))

\* update_layout_parameters(layout_params, measurement_group, conn): layout 1
\* is the content of the parameter file, 0 the empty table
update_layout_parameters(S, mg) ==
    Bind(establish_layout_parameters(S, mg, "replace"),
      LAMBDA A :
        IF A.failed THEN A
        ELSE IF ~Usable(A, Tab("Layout", mg)) THEN Fail(A)
        ELSE IF A.c.layout[mg] = 1 THEN Commit(A)
        ELSE Bind(dump_extractions(A, mg),
               LAMBDA D :
                 IF D.failed THEN D
                 ELSE Commit([D EXCEPT !.c.layout[mg] = 1,
                                       !.log = Append(@, [ev |-> "INSERT INTO Layout",
                                                          name |-> Tab("Layout", mg)])])))

(***************************************************************************)
(* Measurement-group and analysis tables, establish_database               *)
(***************************************************************************)
\* establish_measurement_group_tables(measurement_group, conn, on_mismatch);
\* the Sweep table gets on_mismatch as it came.  The view jmp."mg" is
\* recreated at the end over Extr, Meas, Layout, Loads, Dies and Materials.
establish_measurement_group_tables(S, mg, on_mismatch) ==
    Bind(_ensure_table_exists(
           _ensure_table_exists(
             _ensure_table_exists(S, Tab("Meas", mg),
                 IF on_mismatch = "replace" THEN "meas_replacement_callback" ELSE on_mismatch),
             Tab("Extr", mg),
             IF on_mismatch = "replace" THEN "extr_replacement_callback" ELSE on_mismatch),
           Tab("Sweep", mg), on_mismatch),
      LAMBDA W :
        IF W.failed THEN W
        ELSE IF \E t \in {Tab("Extr", mg), Tab("Meas", mg), Tab("Layout", mg), CoreTab("Loads"),
                          CoreTab("Dies"), CoreTab("Materials")} : W.c.live[t] = "absent"
        THEN Fail(W)
        ELSE W)

\* establish_higher_analysis_tables(analysis, conn, on_mismatch)
establish_higher_analysis_tables(S, an, on_mismatch) ==
    IF S.failed THEN S
    ELSE IF S.cat[CoreTab("Loads")] = "absent" THEN Fail(S)        \* self._loadtab
    ELSE _ensure_table_exists(S, Tab("Analysis", an),
             IF on_mismatch = "replace" THEN "replacement_callback" ELSE on_mismatch)

\* variant: the core tables established with the caller's on_mismatch
establish_core_tables_AsGiven(S, on_mismatch) ==
    _ensure_table_exists(
        _ensure_table_exists(
            _ensure_table_exists(
                _ensure_table_exists(S, CoreTab("Materials"), on_mismatch),
                CoreTab("Loads"), on_mismatch),
            CoreTab("ReExtract"), on_mismatch),
        CoreTab("ReAnalyze"), on_mismatch)

\* the four _ensure_table_exists calls with on_mismatch='raise'
establish_core_tables(S, on_mismatch) ==
    _ensure_table_exists(
        _ensure_table_exists(
            _ensure_table_exists(
                _ensure_table_exists(S, CoreTab("Materials"), "raise"),
                CoreTab("Loads"), "raise"),
            CoreTab("ReExtract"), "raise"),
        CoreTab("ReAnalyze"), "raise")

RECURSIVE establish_layouts(_, _, _)
establish_layouts(S, order, on_mismatch) ==
    IF order = <<>> THEN S
    ELSE establish_layouts(Commit(establish_layout_parameters(S, Head(order), on_mismatch)),
                           Tail(order), on_mismatch)

RECURSIVE establish_groups(_, _, _)
establish_groups(S, order, on_mismatch) ==
    IF order = <<>> THEN S
    ELSE establish_groups(Commit(establish_measurement_group_tables(S, Head(order), on_mismatch)),
                          Tail(order), on_mismatch)

RECURSIVE establish_analyses(_, _, _)
establish_analyses(S, order, on_mismatch) ==
    IF order = <<>> THEN S
    ELSE establish_analyses(Commit(establish_higher_analysis_tables(S, Head(order), on_mismatch)),
                            Tail(order), on_mismatch)

\* establish_database(on_mismatch)
establish_database(S0, on_mismatch) ==
    Bind(establish_mask_tables(Connect(S0), on_mismatch),
      LAMBDA K :
        establish_analyses(
          establish_groups(
            establish_layouts(
              Commit(establish_core_tables(
                IF ~K.failed /\ K.created THEN update_mask_info(K, ConfiguredDies) ELSE K,
                on_mismatch)),
              GroupOrder, on_mismatch),
            GroupOrder, on_mismatch),
          AnalysisOrder, on_mismatch))

\* _init_metadata(): the catalog reflects the live tables
_init_metadata(d) == d.live

(***************************************************************************)
(* Reading the database                                                    *)
(***************************************************************************)
MatIds(d, name) == {m.matid : m \in MatByName(d, name)}
LoadsOf(d, name, mg) == {l \in d.loads : l.MeasGroup = mg /\ l.matid \in MatIds(d, name)}
QueuedFor(d, name, mg) == {r \in d.rex : r.MeasGroup = mg /\ r.matid \in MatIds(d, name)}
\* the Meas, Extr and Sweep rows of a group that belong to the loads ls
GroupRows(d, mg, ls) ==
    LET ids == {l.loadid : l \in ls}
        of(rows) == {r \in rows : r.MeasGroup = mg /\ r.loadid \in ids}
    IN [meas |-> of(d.meas), extr |-> of(d.extr), sweep |-> of(d.sweep)]
\* the queue as (full name, group, full_reload) triples
QueueByName(d) ==
    {<<x.m.name, x.q.MeasGroup, x.q.full_reload>> :
        x \in {y \in [m : d.mat, q : d.rex] : y.m.matid = y.q.matid}}
Duc(d, name) ==
    IF MatByName(d, name) = {} THEN NULL ELSE Pick(MatByName(d, name)).date_user_changed

(***************************************************************************)
(* History: the last operation and its arguments                           *)
(***************************************************************************)
NoLast ==
    [op |-> "init", ok |-> TRUE, mat |-> "-", gs |-> {}, clear |-> FALSE,
     user |-> FALSE, reext |-> FALSE, failAt |-> 0, pushed |-> {}, env |-> "-",
     had |-> {}, hadFull |-> {}, others |-> {}, queued |-> {}, on_mismatch |-> "-", raised |-> NoTab,
     added |-> 0, rejected |-> FALSE, permuted |-> FALSE, newMasks |-> {}, mid |-> <<>>, log |-> <<>>, serial |-> {},
     table |-> <<>>, all |-> FALSE, keep_rex |-> FALSE, yes |-> FALSE, answer |-> <<>>,
     skip_establish |-> FALSE, handle |-> <<>>,
     info |-> [failed |-> TRUE, read |-> {},
               value |-> [pairs |-> [k \in {} |-> <<>>], Driver |-> "", sslargs |-> [k \in {} |-> ""]]],
     factor_names |-> <<>>, filters |-> [f \in {} |-> {}], scalar_columns |-> <<>>,
     include_sweeps |-> [list |-> FALSE, on |-> FALSE, headers |-> <<>>],
     facs |-> [failed |-> TRUE, value |-> [f \in {} |-> {}]],
     facs_ddf |-> [failed |-> TRUE, value |-> [f \in {} |-> {}]],
     data |-> [failed |-> TRUE, columns |-> <<>>, rows |-> <<>>],
     data_ddf |-> [failed |-> TRUE, columns |-> <<>>, rows |-> <<>>]]

Finish(R, l) ==
    /\ db' = R.d
    /\ catalog' = R.cat
    /\ seqs' = R.seq
    /\ now' = now + 1
    /\ last' = [l EXCEPT !.ok = ~R.failed, !.pushed = R.pushed]
    /\ UNCHANGED <<ddf, _database, environ, credentials>>

(***************************************************************************)
(* get_data_for_regen                                                      *)
(***************************************************************************)
\* the loadid column of get_data_for_regen(meas_group, matname, on_no_data=None):
\* the raw rows of the group joined to Sweep, Loads and Materials; NULL is None
get_data_for_regen(c, mg, name) ==
    LET ids == {l.loadid : l \in {x \in c.loads :
                    /\ x.MeasGroup = mg
                    /\ \E m \in MatByName(c, name) : m.matid = x.matid
                    /\ DataRow(mg, x.loadid) \in c.meas
                    /\ DataRow(mg, x.loadid) \in c.sweep}}
    IN IF ids = {} THEN NULL ELSE Pick(ids)


(***************************************************************************)
(* read_and_upload_data, heal                                              *)
(***************************************************************************)
\* What the reader meets: kind "read" (the folders are given, or come from
\* meta_reader.connect_toplevel_folder_to) with the groups the source files
\* of the material hold; "declined" and "accepted" are the answers to the
\* prompt when there is no folder restriction.
ReadEnvs ==
    {[kind |-> "read", disk |-> d] : d \in SUBSET Groups}
    \cup {[kind |-> k, disk |-> {}] : k \in {"declined", "accepted"}}

\* read_and_upload_data(db, folders, only_material, only_meas_groups,
\*                      clear_all_from_material, user_called) for one material
read_and_upload_data(S, env, name, only_meas_groups, clear, user_called, tnow) ==
    IF S.failed THEN S
    ELSE IF env.kind = "declined" THEN S
    ELSE IF env.kind = "accepted" THEN Fail(S)     \* ' and '.join(folders) with folders=None
    ELSE LET found == env.disk \cap only_meas_groups
         IN IF found = {} THEN S
            ELSE push_data(S, name, found, [g \in Groups |-> NULL], clear, user_called,
                           FALSE, 0, tnow)

RexGroups(c, matid, full) ==
    {r.MeasGroup : r \in {x \in c.rex : x.matid = matid /\ x.full_reload = full}}

\* variant: every group whose sweeps were pulled is pushed
heal_reextract_PushAll(S, name, matid, tnow) ==
    IF S.failed THEN S
    ELSE LET meas_groups == RexGroups(S.d, matid, FALSE)
             all_meas_groups == ensure_meas_group_sufficiency(meas_groups)
             mumts == {g \in all_meas_groups : get_data_for_regen(S.d, g, name) # NULL}
         IN IF meas_groups = {} THEN S
            ELSE IF \E g \in all_meas_groups, k \in {"Meas", "Sweep", "Layout"} :
                        _mgt(S.cat, g, k) = "absent" \/ S.d.live[Tab(k, g)] = "absent"
            THEN Fail(S)
            ELSE push_data([S EXCEPT !.log = Append(@, [ev |-> "re-extract", name |-> name,
                                                        gs |-> meas_groups])],
                           name, mumts,
                           [g \in Groups |-> get_data_for_regen(S.d, g, name)],
                           FALSE, FALSE, TRUE, 0, tnow)

\* "Re-extracts": pull the stored sweeps of the sufficient groups, re-extract,
\* push the queued groups only
heal_reextract(S, name, matid, tnow) ==
    IF S.failed THEN S
    ELSE LET meas_groups == RexGroups(S.d, matid, FALSE)
             all_meas_groups == ensure_meas_group_sufficiency(meas_groups)
             mumts == {g \in all_meas_groups : get_data_for_regen(S.d, g, name) # NULL}
         IN IF meas_groups = {} THEN S
            ELSE IF \E g \in all_meas_groups, k \in {"Meas", "Sweep", "Layout"} :
                        _mgt(S.cat, g, k) = "absent" \/ S.d.live[Tab(k, g)] = "absent"
            THEN Fail(S)
            ELSE push_data([S EXCEPT !.log = Append(@, [ev |-> "re-extract", name |-> name,
                                                        gs |-> meas_groups])],
                           name, mumts \cap meas_groups,
                           [g \in Groups |-> get_data_for_regen(S.d, g, name)],
                           FALSE, FALSE, TRUE, 0, tnow)

\* variant: the "Re-extracts" block placed before the "Reloads" block
heal_material_ExtractFirst(S, env, force_all_meas_groups, mrow, tnow) ==
    IF S.failed THEN S
    ELSE LET R == heal_reextract(S, mrow.name, mrow.matid, tnow)
             full == IF R.failed THEN {} ELSE RexGroups(R.d, mrow.matid, TRUE)
             meas_groups == IF force_all_meas_groups THEN Groups ELSE full
         IN IF R.failed \/ full = {} THEN R
            ELSE read_and_upload_data(
                     [R EXCEPT !.log = Append(@, [ev |-> "reload", name |-> mrow.name,
                                                  gs |-> full])],
                     env, mrow.name,
                     ensure_meas_group_sufficiency(meas_groups), FALSE, FALSE, tnow)

\* the body of "for matid,matname,*other_matinfo in res" of the first queue
heal_material(S, env, force_all_meas_groups, mrow, tnow) ==
    IF S.failed THEN S
    ELSE LET full == RexGroups(S.d, mrow.matid, TRUE)
             meas_groups == IF force_all_meas_groups THEN Groups ELSE full
             R == IF full = {} THEN S
                  ELSE read_and_upload_data(
                           [S EXCEPT !.log = Append(@, [ev |-> "reload", name |-> mrow.name,
                                                        gs |-> full])],
                           env, mrow.name,
                           ensure_meas_group_sufficiency(meas_groups), FALSE, FALSE, tnow)
         IN heal_reextract(R, mrow.name, mrow.matid, tnow)

\* ORDER BY date_user_changed DESC over the rows of a queue joined to
\* Materials: one entry per queue row
RECURSIVE SortedByDate(_)
SortedByDate(rows) ==
    IF rows = {} THEN <<>>
    ELSE LET top == CHOOSE r \in rows :
                       \A q \in rows : q.m.date_user_changed <= r.m.date_user_changed
         IN <<top.m>> \o SortedByDate(rows \ {top})

QueueJoin(c, queue) == {x \in [m : c.mat, q : queue] : x.m.matid = x.q.matid}

RECURSIVE heal_reload_loop(_, _, _, _, _)
heal_reload_loop(S, res, env, force_all_meas_groups, tnow) ==
    IF res = <<>> THEN S
    ELSE heal_reload_loop(
            heal_material(IF S.failed THEN S
                          ELSE [S EXCEPT !.at = Head(res).name,
                                         !.log = Append(@, [ev |-> "PendingReload", name |-> Head(res).name,
                                                            gs |-> {}])],
                          env, force_all_meas_groups, Head(res), tnow),
            Tail(res), env, force_all_meas_groups, tnow)

\* get_data(meas_group=mg, include_sweeps=False, scalar_columns=..., matname):
\* the load ids of the joined Extr, Meas, Loads and Materials rows
ScalarLoadIds(c, mg, name) ==
    {l.loadid : l \in {x \in c.loads :
        /\ x.MeasGroup = mg
        /\ \E m \in MatByName(c, name) : m.matid = x.matid
        /\ DataRow(mg, x.loadid) \in c.meas
        /\ DataRow(mg, x.loadid) \in c.extr}}

\* variant: no conn.commit() after the analyses of a material
heal_reanalyze_NoCommit(S, mrow) ==
    IF S.failed THEN S
    ELSE LET analyses == {r.analysis : r \in {x \in S.c.rea : x.matid = mrow.matid}}
             req_meas_groups == get_dependency_meas_groups_for_analyses(analyses, TRUE)
             all_meas_groups == get_dependency_meas_groups_for_analyses(analyses, FALSE)
             ids == [g \in Groups |-> ScalarLoadIds(S.c, g, mrow.name)]
             mumts == {g \in all_meas_groups : ids[g] # {}}
         IN IF analyses = {} THEN S
            ELSE IF \E g \in all_meas_groups, k \in {"Meas", "Extr", "Layout"} :
                        _mgt(S.cat, g, k) = "absent" \/ S.c.live[Tab(k, g)] = "absent"
            THEN Fail(S)
            ELSE IF \E g \in req_meas_groups : ids[g] = {} THEN Fail(S)  \* Missing required data
            ELSE IF \E g \in all_meas_groups : Cardinality(ids[g]) # 1
            THEN Fail(S)       \* assert len(list(data['loadid'].unique()))==1
            ELSE perform_analyses(S, analyses, mumts,
                     [g \in Groups |-> IF g \in all_meas_groups THEN Pick(ids[g]) ELSE NULL],
                     mrow.matid)

\* "Re-analyses" of one material, on heal's own connection, then commit
heal_reanalyze(S, mrow) ==
    IF S.failed THEN S
    ELSE LET analyses == {r.analysis : r \in {x \in S.c.rea : x.matid = mrow.matid}}
             req_meas_groups == get_dependency_meas_groups_for_analyses(analyses, TRUE)
             all_meas_groups == get_dependency_meas_groups_for_analyses(analyses, FALSE)
             ids == [g \in Groups |-> ScalarLoadIds(S.c, g, mrow.name)]
             mumts == {g \in all_meas_groups : ids[g] # {}}
         IN IF analyses = {} THEN S
            ELSE IF \E g \in all_meas_groups, k \in {"Meas", "Extr", "Layout"} :
                        _mgt(S.cat, g, k) = "absent" \/ S.c.live[Tab(k, g)] = "absent"
            THEN Fail(S)
            ELSE IF \E g \in req_meas_groups : ids[g] = {} THEN Fail(S)  \* Missing required data
            ELSE IF \E g \in all_meas_groups : Cardinality(ids[g]) # 1
            THEN Fail(S)       \* assert len(list(data['loadid'].unique()))==1
            ELSE Commit(perform_analyses(S, analyses, mumts,
                     [g \in Groups |-> IF g \in all_meas_groups THEN Pick(ids[g]) ELSE NULL],
                     mrow.matid))

RECURSIVE heal_reanalyze_loop(_, _)
heal_reanalyze_loop(S, res) ==
    IF res = <<>> THEN S
    ELSE heal_reanalyze_loop(
            heal_reanalyze(IF S.failed THEN S
                           ELSE [S EXCEPT !.at = Head(res).name,
                                          !.log = Append(@, [ev |-> "PendingReanalysis", name |-> Head(res).name,
                                                             gs |-> {}])],
                           Head(res)),
            Tail(res))

QueuesUsable(S, t) == Usable(S, t) /\ Usable(S, CoreTab("Materials"))

\* heal(db, force_all_meas_groups)
heal(S0, env, force_all_meas_groups, tnow) ==
    Bind(Connect(S0),
      LAMBDA S1 :
    Bind(IF ~QueuesUsable(S1, CoreTab("ReExtract")) THEN Fail(S1)
         ELSE heal_reload_loop(S1, SortedByDate(QueueJoin(S1.c, S1.c.rex)), env,
                               force_all_meas_groups, tnow),
      LAMBDA S2 :
    \* at: the material of the loop variable; mid: the committed database as the
    \* second queue is read; log: the materials visited and the pushes made
    Bind(IF S2.failed THEN S2
         ELSE [S2 EXCEPT !.c = S2.d, !.mid = <<S2.d>>,
                         !.log = Append(@, [ev |-> "select ReAnalyze", name |-> "-", gs |-> {}])],
      LAMBDA S3 :
        IF S3.failed THEN S3
        ELSE IF ~QueuesUsable(S3, CoreTab("ReAnalyze")) THEN Fail(S3)
        ELSE heal_reanalyze_loop(S3, SortedByDate(QueueJoin(S3.c, S3.c.rea))))))

(***************************************************************************)
(* Actions                                                                 *)
(***************************************************************************)
NonEmpty(set) == SUBSET set \ {{}}

\* a call of push_data with measured tables read from files, or, for
\* re_extraction, with the tables get_data_for_regen returns for the groups
Push(name, gs, clear, user_called, re_extraction, failAt) ==
    /\ now < MaxOps
    /\ re_extraction => \A g \in gs : get_data_for_regen(db, g, name) # NULL
    /\ LET lidsIn == [g \in Groups |->
                        IF re_extraction /\ g \in gs THEN get_data_for_regen(db, g, name)
                        ELSE NULL]
           R == push_data(Session(db, _init_metadata(db), seqs), name, gs, lidsIn, clear, user_called,
                          re_extraction, failAt, now + 1)
       IN Finish(R, [NoLast EXCEPT !.op = "push_data", !.mat = name, !.gs = gs,
                                   !.clear = clear, !.user = user_called,
                                   !.reext = re_extraction, !.failAt = failAt,
                                   !.had = {g \in gs : LoadsOf(db, name, g) # {}},
                                   !.others = {g \in Groups \ gs : LoadsOf(db, name, g) # {}},
                                   !.hadFull = {g \in gs : \E r \in QueuedFor(db, name, g) :
                                                              r.full_reload}])

\* cli_dump_extraction -g mg
DumpExtraction(mg) ==
    /\ now < MaxOps
    /\ Finish(Commit(dump_extractions(Session(db, _init_metadata(db), seqs), mg)),
              [NoLast EXCEPT !.op = "dump_extractions", !.gs = {mg}])

\* cli_dump_measurement -g mg
DumpMeasurement(mg) ==
    /\ now < MaxOps
    /\ Finish(Commit(dump_measurements(Session(db, _init_metadata(db), seqs), mg)),
              [NoLast EXCEPT !.op = "dump_measurements", !.gs = {mg}])

\* cli_upload_data [-g ...] [-k] for the files of one material; no -f and
\* no usable connect_toplevel_folder_to is the prompt of env.kind
\* "declined" / "accepted"
UploadData(env, name, only_meas_groups, keep_other_groups) ==
    /\ now < MaxOps
    /\ LET R == read_and_upload_data(Session(db, _init_metadata(db), seqs), env, name,
                                     only_meas_groups, ~keep_other_groups, TRUE, now + 1)
       IN Finish(R, [NoLast EXCEPT !.op = "read_and_upload_data", !.mat = name,
                                   !.env = env.kind, !.gs = env.disk \cap only_meas_groups,
                                   !.clear = ~keep_other_groups, !.user = TRUE])

\* cli_heal [-a]
Heal(env, force_all_meas_groups) ==
    /\ now < MaxOps
    /\ LET R == heal(Session(db, _init_metadata(db), seqs), env, force_all_meas_groups, now + 1)
       IN Finish(R, [NoLast EXCEPT !.op = "heal", !.clear = force_all_meas_groups,
                                   !.env = env.kind, !.gs = env.disk,
                                   !.queued = QueueByName(db), !.mat = R.at,
                                   !.mid = R.mid, !.log = R.log])

\* get_database(on_mismatch): a new process reflects the catalog and runs
\* establish_database; cli_force_database is on_mismatch = "replace"
Establish(on_mismatch) ==
    /\ now < MaxOps
    /\ LET R == establish_database(Session(db, _init_metadata(db), seqs), on_mismatch)
       IN Finish(R, [NoLast EXCEPT !.op = "establish_database", !.on_mismatch = on_mismatch,
                                   !.raised = R.raised, !.log = R.log])

\* the generated table omits or alters a row of the stored die table
Rejected(d, gen) ==
    \E i \in 1..Len(d.dies) :
        \/ i > Len(gen)
        \/ gen[i] # GenRow(d.dies[i].Mask, d.dies[i].DieXY, d.dies[i].geom)

\* cli_update_mask_info with the tables gen coming from the generators
UpdateMaskInfo(gen) ==
    /\ now < MaxOps
    /\ LET R == Commit(update_mask_info(Session(db, _init_metadata(db), seqs), gen))
       IN Finish(R, [NoLast EXCEPT !.op = "update_mask_info",
                                   !.rejected = Rejected(db, gen),
                                   \* one row per site, every stored row somewhere
                                   !.permuted =
                                      /\ Rejected(db, gen)
                                      /\ \A i, j \in 1..Len(gen) :
                                            i # j => <<gen[i].Mask, gen[i].DieXY>>
                                                        # <<gen[j].Mask, gen[j].DieXY>>
                                      /\ \A i \in 1..Len(db.dies) : \E j \in 1..Len(gen) :
                                            gen[j] = GenRow(db.dies[i].Mask, db.dies[i].DieXY,
                                                            db.dies[i].geom),
                                   !.newMasks = {gen[i].Mask : i \in 1..Len(gen)} \ db.masks,
                                   !.added = Len(R.d.dies) - Len(db.dies)])

FirstSeqs == [mat |-> 1, load |-> 1]

\* os.environ: a variable that is set holds one value, <<>> is unset; the
\* text of DATAVACUUM_DBSTRING is a sequence of words and delimiters
LiteralEnv ==
    [DATAVACUUM_DBSTRING |->
         << <<"Uid", "=", "a", ";", "Password", "=", "b", ";", "Server", "=", "c", ";",
              "Port", "=", "5432", ";", "Database", "=", "d">> >>,
     DATAVACUUM_DB_DRIVERNAME |-> <<"postgresql">>,
     DATAVACUUM_DB_SSLROOTCERT |-> <<>>,
     DATAVACUUM_SSLROOTCERT |-> <<>>]

Init ==
    /\ db = FreshDb
    /\ catalog = FreshDb.live
    /\ seqs = FirstSeqs
    /\ now = 0
    /\ last = NoLast
    /\ ddf = <<>>
    /\ _database = <<>>
    /\ environ = LiteralEnv
    /\ credentials = [get_db_connection_info |-> <<>>, get_ssl_rootcert_for_db |-> <<>>]

Next ==
    \/ \E name \in Mats, gs \in NonEmpty(Groups), clear, user_called, re_extraction \in BOOLEAN :
          Push(name, gs, clear, user_called, re_extraction, 0)
    \/ \E mg \in Groups : DumpExtraction(mg)
    \/ \E mg \in Groups : DumpMeasurement(mg)
    \/ \E env \in ReadEnvs, force_all_meas_groups \in BOOLEAN : Heal(env, force_all_meas_groups)

Spec == Init /\ [][Next]_vars

(***************************************************************************)
(* Properties of pushes and healing on an established database (Spec)      *)
(***************************************************************************)
StoredRows(mg, loadid) ==
    [meas |-> {DataRow(mg, loadid)}, extr |-> {DataRow(mg, loadid)},
     sweep |-> {DataRow(mg, loadid)}]
OldLoadIds(d, name, mg) == {l.loadid : l \in LoadsOf(d, name, mg)}

\* C3: after every successful push_data with re_extraction=false (with either
\* value of clear_all_from_material) each (material, group) the call pushed
\* has exactly one Load row, that row is new, the earlier Load of the key and
\* the Meas, Extr and Sweep rows that hung on it are gone, and the rows stored
\* for the group of this material are those of this push only; no (material,
\* group) of the database ever has two Loads, and the Loads of other
\* materials (and, without clear_all_from_material, of the other groups of
\* this material) are the ones that were there.
C3_LoadReplacement ==
    [][(last'.op = "push_data" /\ last'.ok /\ ~last'.reext) =>
         /\ \A g \in last'.gs :
               LET new == LoadsOf(db', last'.mat, g)
                   gone == OldLoadIds(db, last'.mat, g)
               IN /\ Cardinality(new) = 1
                  /\ \A l \in new :
                        /\ l.loadid \notin LoadIds(db)
                        /\ GroupRows(db', g, new) = StoredRows(g, l.loadid)
                  /\ \A r \in db'.loads \cup db'.meas \cup db'.extr \cup db'.sweep :
                        r.loadid \notin gone
         /\ \A name \in Mats, g \in Groups :
               /\ Cardinality(LoadsOf(db', name, g)) <= 1
               /\ (name # last'.mat \/ (~last'.clear /\ g \notin last'.gs))
                     => LoadsOf(db', name, g) = LoadsOf(db, name, g)
         /\ \A name \in Mats : Cardinality(MatByName(db', name)) <= 1
      ]_vars

\* a push without clear_all_from_material replaced the Load a group already had
C3_Witness ==
    /\ last.op = "push_data" /\ last.ok /\ ~last.reext /\ ~last.clear
    /\ last.had # {}
    /\ \E g \in last.had : Cardinality(LoadsOf(db, last.mat, g)) = 1

\* C4: date_user_changed of a material changes only through a push_data call
\* with user_called=true for that material; every push_data call with
\* user_called=false, every dump and every run of heal (full-reload pass,
\* extraction-only pass and reanalysis pass) leaves the date_user_changed of
\* every material as it was.
C4_TimestampOnlyByUser ==
    [][\A name \in Mats :
          Duc(db', name) # Duc(db, name) =>
              last'.op = "push_data" /\ last'.user /\ last'.ok /\ last'.mat = name
      ]_vars

\* heal re-uploaded a group of a material whose timestamp is older than the heal
C4_Witness ==
    /\ last.op = "heal" /\ last.ok
    /\ \E p \in last.pushed : Duc(db, p[1]) # NULL /\ Duc(db, p[1]) < now

\* the groups heal reads for a queue that holds the single row (M, g1, full)
HealTargets(force_all_meas_groups, g1, full) ==
    ensure_meas_group_sufficiency(IF full /\ force_all_meas_groups THEN Groups ELSE {g1})

NoLoadIds == [g \in Groups |-> NULL]

\* two user uploads with clear_all_from_material: m1 with g1 and g3, m2 with g1
Uploaded ==
    push_data(push_data(Session(FreshDb, FreshDb.live, FirstSeqs),
                        "m1", {"g1", "g3"}, NoLoadIds, TRUE, TRUE, FALSE, 0, 1),
              "m2", {"g1"}, NoLoadIds, TRUE, TRUE, FALSE, 0, 2)

RECURSIVE dump_extractions_of(_, _, _)
dump_extractions_of(S, order, gs) ==
    IF order = <<>> THEN S
    ELSE dump_extractions_of(
            IF Head(order) \in gs THEN Commit(dump_extractions(S, Head(order))) ELSE S,
            Tail(order), gs)

\* The uploaded database after work was queued for it.  reloads are the Loads
\* with a full-reload row: dump_measurements and push_data run on connections
\* of their own, and a dump_measurements(G) that commits while a push of (M,G)
\* is under way leaves (M,G,true) queued next to the Meas rows of the push
\* (its INSERT ... SELECT sees the superseded Load, its DELETE does not see the
\* rows the push has not committed yet).  dumped are the groups
\* dump_extractions ran for afterwards.
Queued(reloads, dumped) ==
    LET U == Uploaded
        Q == [U EXCEPT !.c.rex = {RexRow(l.matid, l.MeasGroup, TRUE) : l \in reloads}]
    IN dump_extractions_of(Commit(Q), GroupOrder, dumped)

InitFrom(S) ==
    /\ db = S.d
    /\ catalog = S.cat
    /\ seqs = S.seq
    /\ now = 2                    \* the clock after the two uploads
    /\ last = NoLast
    /\ ddf = <<>>
    /\ _database = <<>>
    /\ environ = LiteralEnv
    /\ credentials = [get_db_connection_info |-> <<>>, get_ssl_rootcert_for_db |-> <<>>]

InitQueue ==
    \E reloads \in SUBSET Uploaded.d.loads, dumped \in SUBSET {"g1", "g3"} :
        InitFrom(Queued(reloads, dumped))

NextQueue ==
    \E name \in Mats, gs \in NonEmpty(Groups), clear, user_called, re_extraction \in BOOLEAN :
        Push(name, gs, clear, user_called, re_extraction, 0)

SpecQueue == InitQueue /\ [][NextQueue]_vars

InitTx ==
    \E dumped \in SUBSET {"g1"} : InitFrom(Queued({}, dumped))

NextTx ==
    \E name \in Mats, gs \in NonEmpty(Groups), clear, user_called, re_extraction \in BOOLEAN,
       failAt \in FailPoints :
        Push(name, gs, clear, user_called, re_extraction, failAt)

SpecTx == InitTx /\ [][NextTx]_vars

\* C2: if a step of push_data (material drop or upsert, ReAnalyze insert, Load
\* insert, Meas/Sweep/Extr upload, ReExtract delete, perform_analyses) fails
\* before the final commit, the committed database (Materials, Loads,
\* Meas/Extr/Sweep, Analysis tables, ReExtract, ReAnalyze and all the rest) is
\* exactly what it was before the call.
C2_AllOrNothing ==
    [][(last'.op = "push_data" /\ ~last'.ok) => db' = db]_vars

\* a user upload with clear_all_from_material that dropped the material, wrote
\* its uploads, and failed at the ReExtract delete
C2_Witness ==
    /\ last.op = "push_data" /\ ~last.ok
    /\ last.user /\ last.clear /\ ~last.reext /\ last.failAt = 7
    /\ last.had # {}

(***************************************************************************)
(* Refreshing the die tables as the mask configuration grows               *)
(***************************************************************************)
\* Longest table the generators return
MaxDies == 3
GenMasks == {"mkA", "mkB"}
GenSites == {"x1", "x2"}
\* the rows a generator can return: every site with its geometry, and the
\* site x1 of mkA with an edited geometry
GenRows == {GenRow(m, xy, 1) : m \in GenMasks, xy \in GenSites} \cup {GenRow("mkA", "x1", 2)}

RECURSIVE SeqsUpTo(_, _)
SeqsUpTo(set, n) ==
    IF n = 0 THEN {<<>>}
    ELSE LET shorter == SeqsUpTo(set, n - 1)
         IN shorter \cup {Append(q, x) : q \in {r \in shorter : Len(r) = n - 1}, x \in set}

\* the database right after the mask tables were created, before the first
\* update_mask_info
InitDies ==
    /\ db = [FreshDb EXCEPT !.masks = {}, !.dies = <<>>]
    /\ catalog = FreshDb.live
    /\ seqs = FirstSeqs
    /\ now = 0
    /\ last = NoLast
    /\ ddf = <<>>
    /\ _database = <<>>
    /\ environ = LiteralEnv
    /\ credentials = [get_db_connection_info |-> <<>>, get_ssl_rootcert_for_db |-> <<>>]

NextDies == \E gen \in SeqsUpTo(GenRows, MaxDies) : UpdateMaskInfo(gen)

SpecDies == InitDies /\ [][NextDies]_vars

MaxLegacy == 2

RECURSIVE LegacyShapes(_)
LegacyShapes(n) ==
    IF n = 0 THEN {[t \in Tables |-> "ok"]}
    ELSE {[f EXCEPT ![t] = shape] : f \in LegacyShapes(n - 1), t \in Tables, shape \in Shapes}

\* the uploaded database, after dump_extractions of the groups dumped, with
\* these table definitions: a table that is absent has no rows, a table of
\* another definition has kept its rows
Legacy(shapes, dumped) ==
    LET U == Queued({}, dumped)
        d == DropTables(U.d, {t \in Tables : shapes[t] = "absent"})
    IN [U EXCEPT !.d = [d EXCEPT !.live = shapes],
                 !.c = [d EXCEPT !.live = shapes],
                 !.cat = shapes]

InitSchema ==
    \E shapes \in LegacyShapes(MaxLegacy), dumped \in SUBSET {"g1"} :
        InitFrom(Legacy(shapes, dumped))

NextSchema ==
    \/ \E on_mismatch \in Policies : Establish(on_mismatch)
    \/ \E mg \in Groups : DumpExtraction(mg)
    \/ \E mg \in Groups : DumpMeasurement(mg)

SpecSchema == InitSchema /\ [][NextSchema]_vars

Mismatched(d) == {t \in Tables : d.live[t] = "old"}
Missing(d) == {t \in Tables : d.live[t] = "absent"}

\* C7: a call of _ensure_table_exists with on_mismatch 'raise' for a table
\* whose live definition differs from the desired one fails and changes
\* neither the live tables, nor any row, nor the catalog, nor the queues; and
\* an establish_database that raised such a mismatch left the database as it
\* was.
C7_RaiseModifiesNothing ==
    /\ \A t \in Mismatched(db) :
          LET S == Session(db, _init_metadata(db), seqs)
              R == _ensure_table_exists(S, t, "raise")
          IN R.failed /\ R.raised = t /\ R.c = S.c /\ R.d = S.d /\ R.cat = S.cat
    /\ (last.op = "establish_database" /\ last.raised # NoTab) =>
          /\ ~last.ok
          /\ db.live[last.raised] = "old"

\* establish_database with 'raise' stopped at a mismatched table
C7_Witness ==
    /\ last.op = "establish_database" /\ last.on_mismatch = "raise" /\ ~last.ok
    /\ last.raised \in Mismatched(db)
    /\ last.raised[1] \in GroupKinds

\* the materials that have Meas rows of a group
MatidsWithMeas(d, mg) == MatidsOfRows(d, {r \in d.meas : r.MeasGroup = mg})
MatidsWithExtr(d, mg) == MatidsOfRows(d, {r \in d.extr : r.MeasGroup = mg /\ r \in d.meas})

\* C8 as stated: after a successful dump_measurements(G), and after a
\* successful establish_database with 'replace' that met a mismatched Meas
\* table of G, every material that had Meas rows for G has a ReExtract row
\* (M,G) with full_reload = true, also when (M,G,false) was queued before.
C8_MeasReplacementQueuesFullReload ==
    [][\A mg \in Groups :
          (/\ last'.ok
           /\ \/ last'.op = "dump_measurements" /\ mg \in last'.gs
              \/ /\ last'.op = "establish_database" /\ last'.on_mismatch = "replace"
                 /\ db.live[Tab("Meas", mg)] = "old")
          => \A i \in MatidsWithMeas(db, mg) : RexRow(i, mg, TRUE) \in db'.rex
      ]_vars

\* C9: when the Extr table of G is the only table whose definition differs
\* and none is missing, establish_database with 'replace' succeeds, every
\* material that had Extr rows for G and no ReExtract row gets (M,G,false),
\* the rows queued before stay as they were, the Extr table is recreated
\* empty, and the Meas and Sweep tables of G and their rows (and every other
\* table) are unchanged.
C9_ExtrReplacementQueuesExtraction ==
    [][\A mg \in Groups :
          (/\ last'.op = "establish_database" /\ last'.on_mismatch = "replace"
           /\ Mismatched(db) = {Tab("Extr", mg)} /\ Missing(db) = {})
          => /\ last'.ok
             /\ db'.rex = db.rex \cup
                   {RexRow(i, mg, FALSE) : i \in {j \in MatidsWithExtr(db, mg) :
                                                  ~\E r \in db.rex : r.matid = j /\ r.MeasGroup = mg}}
             /\ db'.live = [db.live EXCEPT ![Tab("Extr", mg)] = "ok"]
             /\ db'.extr = {r \in db.extr : r.MeasGroup # mg}
             /\ db' = [db EXCEPT !.rex = db'.rex, !.live = db'.live, !.extr = db'.extr]
      ]_vars

\* the Extr table of a group with extracted rows was replaced
C9_Witness ==
    /\ last.op = "establish_database" /\ last.on_mismatch = "replace" /\ last.ok
    /\ Mismatched(db) = {} /\ Missing(db) = {}
    /\ \E mg \in Groups :
          /\ \E r \in db.rex : r.MeasGroup = mg /\ ~r.full_reload
          /\ \E r \in db.meas : r.MeasGroup = mg /\ r \notin db.extr /\ r \in db.sweep
          /\ \A g \in Groups \ {mg} : \A r \in db.meas : r.MeasGroup = g => r \in db.extr

\* C10: whatever on_mismatch the caller gives, an establish_database that
\* meets a mismatch in Materials, Loads, ReExtract or ReAnalyze fails, and
\* none of the four tables is dropped or recreated: their definitions and
\* rows, like the rest of the database, are what they were.
C10_CoreTablesNeverReplaced ==
    [][(/\ last'.op = "establish_database"
        /\ \E n \in CoreNames : db.live[CoreTab(n)] = "old")
       => /\ ~last'.ok
          /\ \A n \in CoreNames : db'.live[CoreTab(n)] = db.live[CoreTab(n)]
          /\ db'.mat = db.mat /\ db'.loads = db.loads
          /\ db'.rex = db.rex /\ db'.rea = db.rea
      ]_vars

\* establish_database with 'replace' raised the mismatch of a core table
C10_Witness ==
    /\ last.op = "establish_database" /\ last.on_mismatch = "replace" /\ ~last.ok
    /\ last.raised \in {CoreTab(n) : n \in CoreNames}
    /\ db.live[last.raised] = "old"

(***************************************************************************)
(* The flags of push_data                                                  *)
(***************************************************************************)
\* C11: a push_data call with user_called and re_extraction both true, and a
\* call with clear_all_from_material and re_extraction both true, fails, and
\* at the failure the connection has written or deleted no row of any table
\* and has drawn no value of a sequence: its view, the committed database and
\* the sequences are those the call started from.
C11_FlagExclusivity ==
    /\ \A name \in Mats, gs \in NonEmpty(Groups), clear, user_called, re_extraction \in BOOLEAN :
          ((user_called /\ re_extraction) \/ (clear /\ re_extraction)) =>
             LET R == push_data(Session(db, _init_metadata(db), seqs), name, gs,
                                [g \in Groups |-> get_data_for_regen(db, g, name)],
                                clear, user_called, re_extraction, 0, now + 1)
             IN R.failed /\ R.c = db /\ R.d = db /\ R.seq = seqs /\ R.cat = catalog
    /\ (last.op = "push_data" /\ last.reext /\ (last.user \/ last.clear)) => ~last.ok

\* a system call with clear_all_from_material and re_extraction was made for
\* a material that is stored with the Loads of the groups passed
C11_Witness ==
    /\ last.op = "push_data" /\ last.reext /\ last.clear /\ ~last.user /\ ~last.ok
    /\ MatByName(db, last.mat) # {}
    /\ last.had # {}

\* C12: a successful push_data with clear_all_from_material=false for the
\* groups gs of a material leaves the Load and the Meas, Extr and Sweep rows
\* of every other group of that material as they were; after a successful
\* push_data with clear_all_from_material=true the material has no Load for a
\* group outside gs.
C12_KeepOtherGroups ==
    [][(last'.op = "push_data" /\ last'.ok) =>
         \A g \in Groups \ last'.gs :
            IF last'.clear
            THEN LoadsOf(db', last'.mat, g) = {}
            ELSE /\ LoadsOf(db', last'.mat, g) = LoadsOf(db, last'.mat, g)
                 /\ GroupRows(db', g, LoadsOf(db', last'.mat, g))
                       = GroupRows(db, g, LoadsOf(db, last'.mat, g))
      ]_vars

\* a push without clear_all_from_material replaced the Load of a group of a
\* material that holds the data of another group
C12_Witness ==
    /\ last.op = "push_data" /\ last.ok /\ ~last.clear /\ ~last.reext
    /\ last.had # {}
    /\ \E g \in last.others :
          /\ LoadsOf(db, last.mat, g) # {}
          /\ GroupRows(db, g, LoadsOf(db, last.mat, g)).meas # {}

(***************************************************************************)
(* Rejected and repeated die refreshes                                     *)
(***************************************************************************)
\* C13 as stated: a run of update_mask_info whose generated table omits or
\* alters a stored Dies row fails before any write is issued: at the failure
\* the connection has changed neither Masks nor Dies.
C13_RejectedBeforeAnyWrite ==
    \A gen \in SeqsUpTo(GenRows, MaxDies) :
        Rejected(db, gen) =>
            LET R == update_mask_info(Session(db, _init_metadata(db), seqs), gen)
            IN R.failed /\ R.c.masks = db.masks /\ R.c.dies = db.dies

\* C13 amended: such a run fails after its Masks upserts and before the Dies
\* upload, and nothing of it is committed: the connection has not changed
\* Dies, and the Masks and Dies tables of the database are those from before
\* the run.
C13_RejectedRunPersistsNothing ==
    /\ \A gen \in SeqsUpTo(GenRows, MaxDies) :
          Rejected(db, gen) =>
              LET R == Commit(update_mask_info(Session(db, _init_metadata(db), seqs), gen))
              IN R.failed /\ R.c.dies = db.dies /\ R.d = db
    /\ (last.op = "update_mask_info" /\ ~last.ok) => last.added = 0

\* a run that brought a mask the database did not know was rejected for
\* altering a stored row
C13_Witness ==
    /\ last.op = "update_mask_info" /\ ~last.ok
    /\ last.rejected
    /\ last.newMasks # {}
    /\ Len(db.dies) > 0

\* C14: when a run of update_mask_info succeeds, a second run right after it
\* with the same configuration and generator output succeeds too, adds no
\* Dies row and leaves the Dies table (and the rest of the database) as the
\* first run left it.
C14_DieRefreshIdempotent ==
    \A gen \in SeqsUpTo(GenRows, MaxDies) :
        LET R1 == Commit(update_mask_info(Session(db, _init_metadata(db), seqs), gen))
        IN ~R1.failed =>
              LET R2 == Commit(update_mask_info(Session(R1.d, _init_metadata(R1.d), R1.seq), gen))
              IN /\ ~R2.failed
                 /\ Len(R2.d.dies) = Len(R1.d.dies)
                 /\ R2.d.dies = R1.d.dies
                 /\ R2.d = R1.d

\* a run with the generator output that filled the die table succeeded and
\* added nothing
C14_Witness ==
    /\ last.op = "update_mask_info" /\ last.ok
    /\ last.added = 0 /\ ~last.rejected /\ last.newMasks = {}
    /\ Len(db.dies) > 1

(***************************************************************************)
(* cli_clear_database                                                      *)
(***************************************************************************)
\* Longest list of -t options
MaxSelect == 2
Range(q) == {q[i] : i \in 1..Len(q)}

\* str.strip(): from the first to the last character that is no whitespace
strip(a) ==
    LET inked == {i \in 1..Len(a) : a[i] # " "}
    IN IF inked = {} THEN <<>>
       ELSE SubSeq(a, CHOOSE i \in inked : \A j \in inked : i <= j,
                      CHOOSE i \in inked : \A j \in inked : i >= j)
\* str.lower()
lower(a) == [i \in 1..Len(a) |-> IF a[i] = "Y" THEN "y" ELSE a[i]]

\* clear_database(only_tables) with conn=None: the drops run in a
\* transaction of their own (engine.begin()) that commits when the block is
\* left; the assertion compares the sorted lists afterwards, so a table
\* named twice, or one that is not in the catalog, fails it when the drops
\* are already committed (a DROP that fails is rolled back: R.c is R.d then)
clear_database_begin(S, only_tables) ==
    Bind(clear_database(Connect(S), Range(only_tables)),
      LAMBDA R :
        IF R.failed THEN [R EXCEPT !.d = R.c]
        ELSE IF Len(only_tables) # Cardinality(Range(only_tables))
             THEN Fail(Commit(R))
             ELSE Commit(R))

\* variant: any answer that begins with a y
Confirmed_Prefix(yes, answer) ==
    yes \/ (lower(strip(answer)) # <<>> /\ Head(lower(strip(answer))) = "y")

\* namespace.yes or prompt(...).strip().lower()=='y'
Confirmed(yes, answer) == yes \/ lower(strip(answer)) = <<"y">>

\* cli_clear_database(*args): all says that no -t was given (every table of
\* the catalog, each once), table is the list of the -t options otherwise
cli_clear_database(S, all, table, keep_rex, yes, answer) ==
    IF ~all /\ \E i \in 1..Len(table) : table[i] \notin Tables \/ S.cat[table[i]] = "absent"
    THEN S                                              \* KeyError: logged, return
    ELSE LET healing == {CoreTab("Materials"), CoreTab("ReExtract")}
             only_tables == IF keep_rex THEN SelectSeq(table, LAMBDA t : t \notin healing)
                            ELSE table
         IN IF ~Confirmed(yes, answer) THEN S
            ELSE IF ~all THEN clear_database_begin(S, only_tables)
            ELSE Commit(clear_database(Connect(S),
                     {t \in Tables : S.cat[t] # "absent" /\ (keep_rex => t \notin healing)}))

\* datavac clear-database [-y] [-t TAB ...] [--keep_rex]; the prompt is only
\* shown without -y
ClearDatabase(all, table, keep_rex, yes, answer) ==
    /\ now < MaxOps
    /\ all <=> table = <<>>
    /\ yes => answer = <<>>
    /\ Finish(cli_clear_database(Session(db, _init_metadata(db), seqs), all, table,
                                  keep_rex, yes, answer),
              [NoLast EXCEPT !.op = "clear_database", !.all = all, !.table = table,
                             !.keep_rex = keep_rex, !.yes = yes, !.answer = answer])

\* db.clear_database(only_tables=[...]) called with Table objects, the one
\* named Nosuch being no table of the catalog
ClearTables(only_tables) ==
    /\ now < MaxOps
    /\ only_tables # <<>>
    /\ Finish(clear_database_begin(Session(db, _init_metadata(db), seqs), only_tables),
              [NoLast EXCEPT !.op = "clear_database(only_tables)", !.table = only_tables])

InitClear ==
    \E dumped \in SUBSET {"g1"} : InitFrom(Queued({}, dumped))

\* the names -t is given, the last one being no key of db._metadata.tables,
\* and what the operator types at the prompt, character by character
NextClear ==
    \E all, keep_rex, yes \in BOOLEAN,
       table \in SeqsUpTo({CoreTab("Materials"), CoreTab("ReExtract"), Tab("Meas", "g1"),
                           Tab("Nosuch", "-")}, MaxSelect),
       answer \in {<<"y">>, <<"Y">>, <<" ", "y", " ">>, <<"n">>, <<"y", "e", "s">>, <<>>} :
        \/ ClearDatabase(all, table, keep_rex, yes, answer)
        \/ ClearTables(table)

SpecClear == InitClear /\ [][NextClear]_vars

\* C15 as stated: a run of clear-database with --keep_rex never drops the
\* Materials table or the ReExtract table, whatever -t options it is given
\* (a list naming only Materials and/or ReExtract included) and with or
\* without -y: both tables exist afterwards when they existed before, with
\* the rows they had.
C15_KeepRexKeepsHealingTables ==
    [][(last'.op = "clear_database" /\ last'.keep_rex) =>
         /\ \A t \in {CoreTab("Materials"), CoreTab("ReExtract")} : db'.live[t] = db.live[t]
         /\ db'.mat = db.mat
         /\ db'.rex = db.rex
      ]_vars

\* C16 as stated: without -y the database is cleared only if the operator
\* answers "y" at the prompt; for any other answer no table is dropped and
\* the in-memory catalog is unchanged.
C16_ClearedOnlyOnLiteralY ==
    [][(last'.op = "clear_database" /\ ~last'.yes /\ last'.answer # <<"y">>) =>
         (db' = db /\ catalog' = catalog)
      ]_vars

\* C16 amended: without -y the database is cleared only if the answer,
\* with surrounding whitespace removed and in lower case, is "y"; for any
\* other answer no table is dropped and the in-memory catalog is unchanged.
C16_ClearedOnlyOnYes ==
    [][(last'.op = "clear_database" /\ ~last'.yes /\ lower(strip(last'.answer)) # <<"y">>) =>
         (db' = db /\ catalog' = catalog)
      ]_vars

\* a run without -y that was answered "yes" and left a loaded database alone
C16_Witness ==
    /\ last.op = "clear_database"
    /\ ~last.yes
    /\ last.answer = <<"y", "e", "s">>
    /\ last.all
    /\ \A t \in Tables : db.live[t] = "ok" /\ catalog[t] = "ok"
    /\ db.loads # {}

(***************************************************************************)
(* Query layer: get_factors and get_data of PostgreSQLDatabase and of the  *)
(* in-memory DDFDatabase, over one fixture table of group g1.  ddf is      *)
(* DDFDatabase._ddf["g1"], a frame with a RangeIndex; the relational       *)
(* tables hold the same measurements: the scalar columns in Meas, Extr,    *)
(* Loads and Materials, every header as one Sweep row with the array in    *)
(* bytes.  All foreign keys of the join are NOT NULL, so every Extr row    *)
(* has exactly one row in the join.                                        *)
(***************************************************************************)
\* Most rows of the fixture table
MaxRows == 3
\* the object-typed columns of the fixture table (Sweep.header values)
Headers == <<"Id", "Vg">>
\* the scalar columns of the fixture table: loadid and measid of Meas, VT of
\* Extr, MeasGroup of Loads, Wafer of Materials
ScalarCols == <<"loadid", "measid", "VT", "MeasGroup", "Wafer">>

\* the fixture tables: up to MaxRows measurements in (loadid, measid) order,
\* one load for each wafer
Fixtures ==
    LET row(l, m, v) ==
            [loadid |-> l, measid |-> m, VT |-> v, MeasGroup |-> "g1",
             Wafer |-> IF l = 1 THEN "w1" ELSE "w2", Id |-> <<l, m, v>>, Vg |-> <<0, m>>]
        rows == {row(l, m, v) : l \in {1, 2}, m \in {0, 1}, v \in {5, 7}}
        before(a, b) == a.loadid < b.loadid \/ (a.loadid = b.loadid /\ a.measid < b.measid)
    IN {t \in SeqsUpTo(rows, MaxRows) : \A i \in 1..(Len(t) - 1) : before(t[i], t[i + 1])}

\* get_factors(meas_group, factor_names, pre_filters): the set of the results
\* it can return.  DISTINCT ON (f) keeps one row, any, for each value of f.
get_factors(t, factor_names, pre_filters) ==
    LET involved_tables == {"Meas", "Extr", "Layout", "Materials", "Dies"}
        table == [loadid |-> "Meas", measid |-> "Meas", VT |-> "Extr", MeasGroup |-> "Loads",
                  Wafer |-> "Materials"]
        get_col == {c \in Range(ScalarCols) : table[c] \in involved_tables}
        passing == {r \in Range(t) : \A pf \in DOMAIN pre_filters : r[pf] \in pre_filters[pf]}
        distinct(f) ==
            {reps \in SUBSET passing :
                \A v \in {r[f] : r \in passing} : Cardinality({r \in reps : r[f] = v}) = 1}
        record(r) == [i \in 1..Len(factor_names) |-> r[factor_names[i]]]
        position(f) ==
            CHOOSE i \in 1..Len(factor_names) :
                /\ factor_names[i] = f
                /\ \A j \in (i + 1)..Len(factor_names) : factor_names[j] # f
    IN IF ~(Range(factor_names) \cup DOMAIN pre_filters \subseteq get_col)
       THEN {[failed |-> TRUE, value |-> [f \in {} |-> {}]]}
       ELSE {[failed |-> FALSE,
              value |-> [f \in Range(factor_names) |->
                            {record(r)[position(f)] :
                                r \in UNION {sel[i] : i \in 1..Len(factor_names)}}]] :
             sel \in {x \in [1..Len(factor_names) -> SUBSET passing] :
                         \A i \in 1..Len(factor_names) : x[i] \in distinct(factor_names[i])}}

\* DDFDatabase.get_factors
DDF_get_factors(t, factor_names, pre_filters) ==
    LET columns == Range(ScalarCols) \cup Range(Headers)
        df == {r \in Range(t) : \A pf \in DOMAIN pre_filters : r[pf] \in pre_filters[pf]}
    IN IF ~(Range(factor_names) \cup DOMAIN pre_filters \subseteq columns)
       THEN [failed |-> TRUE, value |-> [f \in {} |-> {}]]
       ELSE [failed |-> FALSE, value |-> [fn \in Range(factor_names) |-> {r[fn] : r \in df}]]

\* get_data_from_meas_group(..., unstack_headers=True, raw_only=False);
\* include_sweeps is a boolean (on) or a list of headers; rows are listed in
\* (loadid, measid) order, the order of the result being unspecified
get_data_from_meas_group(t, scalar_columns, include_sweeps, factors) ==
    LET sweeps == IF include_sweeps.list THEN include_sweeps.headers # <<>>
                  ELSE include_sweeps.on
        where == IF include_sweeps.list /\ include_sweeps.headers # <<>>
                 THEN [f \in DOMAIN factors \cup {"header"} |->
                          IF f = "header" THEN Range(include_sweeps.headers) ELSE factors[f]]
                 ELSE factors
        get_col == Range(ScalarCols) \cup (IF sweeps THEN {"header", "sweep"} ELSE {})
        wanted == IF scalar_columns = <<>> THEN ScalarCols
                  ELSE IF ~sweeps THEN scalar_columns
                  ELSE scalar_columns
                       \o SelectSeq(<<"loadid", "measid">>,
                                    LAMBDA sc : sc \notin Range(scalar_columns))
        stacked(r) ==
            IF sweeps
            THEN [i \in 1..Len(Headers) |->
                     [c \in get_col |-> IF c = "header" THEN Headers[i]
                                        ELSE IF c = "sweep" THEN <<"bytes", r[Headers[i]]>>
                                        ELSE r[c]]]
            ELSE <<r>>
        joined[i \in 0..Len(t)] == IF i = 0 THEN <<>> ELSE joined[i - 1] \o stacked(t[i])
        data == SelectSeq(joined[Len(t)], LAMBDA r : \A f \in DOMAIN where : r[f] \in where[f])
        \* _unstack_header_helper: pivot on header, merge, reset_index(drop=True)
        pivoted == SelectSeq(Headers, LAMBDA h : \E i \in 1..Len(data) : data[i].header = h)
        others == SelectSeq(wanted, LAMBDA c : c \notin {"loadid", "measid"})
        first == SelectSeq(data, LAMBDA r : \A i \in 1..Len(data) :
                     (data[i].loadid = r.loadid /\ data[i].measid = r.measid)
                         => ~(\E j \in 1..Len(Headers) : Headers[j] = r.header
                                 /\ \E k \in 1..(j - 1) : Headers[k] = data[i].header))
        frombuffer(b) == b[2]
        sweep(r, h) ==
            frombuffer((CHOOSE x \in Range(data) :
                           x.loadid = r.loadid /\ x.measid = r.measid /\ x.header = h).sweep)
    IN IF ~(Range(scalar_columns) \cup DOMAIN where \subseteq get_col)
       THEN [failed |-> TRUE, columns |-> <<>>, rows |-> <<>>]
       ELSE IF ~sweeps
       THEN [failed |-> FALSE, columns |-> wanted,
             rows |-> [i \in 1..Len(data) |-> [c \in Range(wanted) |-> data[i][c]]]]
       ELSE [failed |-> FALSE, columns |-> pivoted \o others,
             rows |-> [i \in 1..Len(first) |->
                          [c \in Range(pivoted) \cup Range(others) |->
                              IF c \in Range(pivoted) THEN sweep(first[i], c)
                              ELSE first[i][c]]]]

\* DDFDatabase.get_data(..., unstack_headers=True, raw_only=False)
DDF_get_data(t, scalar_columns, include_sweeps, factors) ==
    LET avail_header_cols == Headers
        avail_scalar_cols == ScalarCols
        columns == Range(avail_scalar_cols) \cup Range(avail_header_cols)
        kept == {i \in 1..Len(t) : \A fname \in DOMAIN factors : t[i][fname] \in factors[fname]}
        df == SelectSeq([i \in 1..Len(t) |-> [index |-> i - 1, row |-> t[i]]],
                        LAMBDA x : x.index + 1 \in kept)
        cols == (IF include_sweeps.list THEN include_sweeps.headers
                 ELSE IF include_sweeps.on THEN avail_header_cols ELSE <<>>)
                \o (IF scalar_columns # <<>> THEN scalar_columns ELSE avail_scalar_cols)
    IN IF ~(DOMAIN factors \cup Range(cols) \subseteq columns)
       THEN [failed |-> TRUE, columns |-> <<>>, rows |-> <<>>]
       ELSE [failed |-> FALSE, columns |-> <<"index">> \o cols,          \* reset_index()
             rows |-> [i \in 1..Len(df) |->
                          [c \in {"index"} \cup Range(cols) |->
                              IF c = "index" THEN df[i].index ELSE df[i].row[c]]]]

\* db.get_factors(...) and DDFDatabase(ddf).get_factors(...) on the fixture;
\* a read changes nothing that a later read sees, so a behaviour has one read
GetFactors(factor_names, pre_filters) ==
    /\ last.op = "init"
    /\ factor_names # <<>>
    /\ \E facs \in get_factors(ddf, factor_names, pre_filters) :
          last' = [NoLast EXCEPT !.op = "get_factors", !.ok = ~facs.failed,
                                 !.factor_names = factor_names, !.filters = pre_filters,
                                 !.facs = facs,
                                 !.facs_ddf = DDF_get_factors(ddf, factor_names, pre_filters)]
    /\ UNCHANGED <<db, catalog, seqs, now, ddf, _database, environ, credentials>>

\* db.get_data(...) and DDFDatabase(ddf).get_data(...) on the fixture
GetData(scalar_columns, include_sweeps, factors) ==
    /\ last.op = "init"
    /\ ~include_sweeps.list => include_sweeps.headers = <<>>
    /\ include_sweeps.list => ~include_sweeps.on
    /\ LET data == get_data_from_meas_group(ddf, scalar_columns, include_sweeps, factors)
       IN last' = [NoLast EXCEPT !.op = "get_data", !.ok = ~data.failed,
                                 !.scalar_columns = scalar_columns, !.filters = factors,
                                 !.include_sweeps = include_sweeps, !.data = data,
                                 !.data_ddf = DDF_get_data(ddf, scalar_columns, include_sweeps,
                                                           factors)]
    /\ UNCHANGED <<db, catalog, seqs, now, ddf, _database, environ, credentials>>

InitRead ==
    /\ db = FreshDb
    /\ catalog = FreshDb.live
    /\ seqs = FirstSeqs
    /\ now = 0
    /\ last = NoLast
    /\ ddf \in Fixtures
    /\ _database = <<>>
    /\ environ = LiteralEnv
    /\ credentials = [get_db_connection_info |-> <<>>, get_ssl_rootcert_for_db |-> <<>>]

\* the reads, with the value-in-list predicates they are given
NextRead ==
    \E filters \in {[f \in {} |-> {}], [Wafer |-> {"w1"}], [Wafer |-> {"w0"}], [VT |-> {5}],
                    [VT |-> {5, 7}, Wafer |-> {"w2"}], [MeasGroup |-> {"g1"}]} :
        \/ \E factor_names \in SeqsUpTo({"Wafer", "VT", "MeasGroup"}, 2) :
              GetFactors(factor_names, filters)
        \/ \E scalar_columns \in {<<>>, <<"VT">>, <<"Wafer", "VT">>, <<"loadid", "VT">>},
              list, on \in BOOLEAN, headers \in {<<>>, <<"Id">>} :
              GetData(scalar_columns, [list |-> list, on |-> on, headers |-> headers], filters)

SpecRead == InitRead /\ [][NextRead]_vars

\* C17 as stated: for every requested factor name f, get_factors returns
\* exactly the set of the distinct values f takes over the rows of the
\* Extr-Meas-Layout-Loads-Materials-Dies join that pass every pre_filter as
\* a value-in-list predicate, no value being attributed to another factor,
\* and returns an empty collection for every factor, instead of failing,
\* when no row passes.
C17_FactorsAreDistinctValues ==
    last.op = "get_factors" =>
        LET passing == {r \in Range(ddf) :
                           \A pf \in DOMAIN last.filters : r[pf] \in last.filters[pf]}
        IN /\ ~last.facs.failed
           /\ DOMAIN last.facs.value = Range(last.factor_names)
           /\ \A f \in Range(last.factor_names) : last.facs.value[f] = {r[f] : r \in passing}

\* C18 as stated: on an equivalent fixture the in-memory DDFDatabase and
\* PostgreSQLDatabase return the same columns and the same rows from
\* get_data, and the same value sets from get_factors, for the same scalar
\* columns, include_sweeps selection and equality factors (with
\* unstack_headers=true and raw_only=false).
C18_InterfaceEquivalence ==
    LET count(rows, r) == Cardinality({i \in 1..Len(rows) : rows[i] = r})
    IN /\ last.op = "get_factors" => last.facs = last.facs_ddf
       /\ last.op = "get_data" =>
             /\ last.data.failed = last.data_ddf.failed
             /\ Range(last.data.columns) = Range(last.data_ddf.columns)
             /\ Len(last.data.rows) = Len(last.data_ddf.rows)
             /\ \A i \in 1..Len(last.data.rows) :
                   count(last.data.rows, last.data.rows[i])
                       = count(last.data_ddf.rows, last.data.rows[i])

(***************************************************************************)
(* get_database and appserve/secrets.py                                    *)
(***************************************************************************)
\* dict([[s.strip() for s in x.split("=")] for x in dbstring.split(";")]):
\* fails unless every part has exactly one "="; a later key replaces an
\* earlier one
connection_info(dbstring) ==
    LET split(s, sep) ==
            LET cuts == {0, Len(s) + 1} \cup {i \in 1..Len(s) : s[i] = sep}
                cut(k) == CHOOSE c \in cuts : Cardinality({d \in cuts : d < c}) = k
            IN [k \in 1..(Cardinality(cuts) - 1) |-> SubSeq(s, cut(k - 1) + 1, cut(k) - 1)]
        stripped(x) == [j \in 1..Len(split(x, "=")) |-> strip(split(x, "=")[j])]
        rows == [i \in 1..Len(split(dbstring, ";")) |-> stripped(split(dbstring, ";")[i])]
        latest(k) == CHOOSE i \in 1..Len(rows) :
                        rows[i][1] = k /\ \A j \in (i + 1)..Len(rows) : rows[j][1] # k
    IN IF \E i \in 1..Len(rows) : Len(rows[i]) # 2
       THEN [failed |-> TRUE, value |-> [k \in {} |-> <<>>]]
       ELSE [failed |-> FALSE,
             value |-> [k \in {rows[i][1] : i \in 1..Len(rows)} |-> rows[latest(k)][2]]]

\* variant: the environment first, the replacement function when
\* DATAVACUUM_DBSTRING is not set
get_db_connection_info_EnvFirst(cred, env) ==
    LET NoInfo == [pairs |-> [k \in {} |-> <<>>], Driver |-> "", sslargs |-> [k \in {} |-> ""]]
    IN IF cred.get_db_connection_info # <<>> /\ env.DATAVACUUM_DBSTRING = <<>>
       THEN [failed |-> FALSE, read |-> {}, value |-> cred.get_db_connection_info[1]]
       ELSE IF env.DATAVACUUM_DBSTRING = <<>> \/ env.DATAVACUUM_DB_DRIVERNAME = <<>>
               \/ connection_info(env.DATAVACUUM_DBSTRING[1]).failed
       THEN [failed |-> TRUE, read |-> {"DATAVACUUM_DBSTRING"}, value |-> NoInfo]
       ELSE [failed |-> FALSE, read |-> {"DATAVACUUM_DBSTRING", "DATAVACUUM_DB_DRIVERNAME"},
             value |-> [pairs |-> connection_info(env.DATAVACUUM_DBSTRING[1]).value,
                        Driver |-> env.DATAVACUUM_DB_DRIVERNAME[1],
                        sslargs |-> [k \in {} |-> ""]]]

\* get_db_connection_info(), with get_db_connection_info_from_environment
\* and get_ssl_rootcert_for_db: the value returned, whether an exception
\* ended the call, and the environment variables that were read
get_db_connection_info(cred, env) ==
    LET NoInfo == [pairs |-> [k \in {} |-> <<>>], Driver |-> "", sslargs |-> [k \in {} |-> ""]]
        Files == {"/ca.pem"}                                    \* the files that exist
        parsed == connection_info(env.DATAVACUUM_DBSTRING[1])
        replaced == cred.get_ssl_rootcert_for_db # <<>>
        pth == IF replaced THEN cred.get_ssl_rootcert_for_db[1] ELSE env.DATAVACUUM_SSLROOTCERT
        cert == IF replaced THEN {} ELSE {"DATAVACUUM_SSLROOTCERT"}
    IN IF cred.get_db_connection_info # <<>>
       THEN [failed |-> FALSE, read |-> {}, value |-> cred.get_db_connection_info[1]]
       ELSE IF env.DATAVACUUM_DBSTRING = <<>>                             \* KeyError
       THEN [failed |-> TRUE, read |-> {"DATAVACUUM_DBSTRING"}, value |-> NoInfo]
       ELSE IF parsed.failed                                               \* ValueError
       THEN [failed |-> TRUE, read |-> {"DATAVACUUM_DBSTRING"}, value |-> NoInfo]
       ELSE IF env.DATAVACUUM_DB_DRIVERNAME = <<>>                        \* KeyError
       THEN [failed |-> TRUE, read |-> {"DATAVACUUM_DBSTRING", "DATAVACUUM_DB_DRIVERNAME"},
             value |-> NoInfo]
       ELSE IF pth # <<>> /\ pth[1] \notin Files                          \* assert
       THEN [failed |-> TRUE,
             read |-> {"DATAVACUUM_DBSTRING", "DATAVACUUM_DB_DRIVERNAME"} \cup cert,
             value |-> NoInfo]
       ELSE [failed |-> FALSE,
             read |-> {"DATAVACUUM_DBSTRING", "DATAVACUUM_DB_DRIVERNAME"} \cup cert,
             value |-> [pairs |-> [k \in DOMAIN parsed.value \ {<<"Driver">>, <<"sslargs">>} |->
                                      parsed.value[k]],
                        Driver |-> env.DATAVACUUM_DB_DRIVERNAME[1],
                        sslargs |-> IF pth = <<>> THEN [k \in {} |-> ""]
                                    ELSE [sslrootcert |-> pth[1], sslmode |-> "verify-full"]]]

\* a call of get_db_connection_info()
GetDbConnectionInfo ==
    /\ last.op = "init"
    /\ last' = [NoLast EXCEPT !.op = "get_db_connection_info",
                              !.ok = ~get_db_connection_info(credentials, environ).failed,
                              !.info = get_db_connection_info(credentials, environ)]
    /\ UNCHANGED <<db, catalog, seqs, now, ddf, _database, environ, credentials>>

\* variant: a handle for each mismatch policy
get_database_PerPolicy(h, S, env, on_mismatch, skip_establish, t) ==
    IF h # <<>> /\ h[1].on_mismatch = on_mismatch THEN [handle |-> h, ret |-> h, R |-> S]
    ELSE Bind(IF skip_establish THEN [S EXCEPT !.cat = _init_metadata(S.d)]
              ELSE establish_database([S EXCEPT !.cat = _init_metadata(S.d)], on_mismatch),
           LAMBDA R :
             IF R.failed THEN [handle |-> h, ret |-> <<>>, R |-> R]
             ELSE [handle |-> <<[id |-> t, on_mismatch |-> on_mismatch]>>,
                   ret |-> <<[id |-> t, on_mismatch |-> on_mismatch]>>, R |-> R])

\* get_database(cached, on_mismatch, skip_establish) with
\* PostgreSQLDatabase.__init__: h is the module's _database, t tells one
\* constructed handle from another; handle is _database afterwards, ret the
\* value returned (none when the call raised)
get_database(h, S, env, on_mismatch, skip_establish, t) ==
    LET cert == env.DATAVACUUM_DB_SSLROOTCERT
        Files == {"/ca.pem"}                                    \* the files that exist
        engine == connection_info(env.DATAVACUUM_DBSTRING[1])
        keys == {<<"Uid">>, <<"Password">>, <<"Server">>, <<"Port">>, <<"Database">>}
    IN IF env.DATAVACUUM_DB_DRIVERNAME # <<"postgresql">>
       THEN [handle |-> h, ret |-> <<>>, R |-> Fail(S)]
       ELSE IF h # <<>> THEN [handle |-> h, ret |-> h, R |-> S]
       ELSE IF \/ cert # <<>> /\ cert[1] \notin Files
               \/ env.DATAVACUUM_DBSTRING = <<>>
               \/ engine.failed
               \/ ~(keys \subseteq DOMAIN engine.value)
       THEN [handle |-> h, ret |-> <<>>, R |-> Fail(S)]
       ELSE Bind(IF skip_establish THEN [S EXCEPT !.cat = _init_metadata(S.d)]
                 ELSE establish_database([S EXCEPT !.cat = _init_metadata(S.d)], on_mismatch),
              LAMBDA R :
                IF R.failed THEN [handle |-> h, ret |-> <<>>, R |-> R]
                ELSE [handle |-> <<[id |-> t, on_mismatch |-> on_mismatch]>>,
                      ret |-> <<[id |-> t, on_mismatch |-> on_mismatch]>>, R |-> R])

\* a call of get_database in the running process
GetDatabase(on_mismatch, skip_establish) ==
    /\ now < MaxOps
    /\ LET G == get_database(_database, Session(db, catalog, seqs), environ, on_mismatch,
                             skip_establish, now + 1)
       IN /\ db' = G.R.d
          /\ catalog' = G.R.cat
          /\ seqs' = G.R.seq
          /\ _database' = G.handle
          /\ last' = [NoLast EXCEPT !.op = "get_database", !.ok = G.ret # <<>>,
                                    !.on_mismatch = on_mismatch,
                                    !.skip_establish = skip_establish, !.handle = G.ret]
    /\ now' = now + 1
    /\ UNCHANGED <<ddf, environ, credentials>>

\* a process starts without a handle: on a database with one table of any
\* earlier shape and the literal environment, or on a fresh one with any environment and
\* any replacement functions
InitProcess ==
    /\ now = 0
    /\ last = NoLast
    /\ ddf = <<>>
    /\ _database = <<>>
    /\ seqs = Uploaded.seq
    /\ \/ /\ \E t \in Tables, shape \in Shapes :
                db = Legacy([[x \in Tables |-> "ok"] EXCEPT ![t] = shape], {}).d
          /\ environ = LiteralEnv
          /\ credentials = [get_db_connection_info |-> <<>>, get_ssl_rootcert_for_db |-> <<>>]
       \/ /\ db = Uploaded.d
          /\ \E dbstring \in
                   {<<>>, LiteralEnv.DATAVACUUM_DBSTRING,
                    << <<" ", "Uid", " ", "=", " ", "a", " ", ";", "Password", "=", "b", " ", "c">> >>,
                    << <<"Uid", "=", "a", ";">> >>, << <<"Uid", "=", "a", "=", "b">> >>,
                    << <<"Uid", "=", "a", ";", "Uid", "=", "b">> >>, << <<>> >>,
                    << <<"Driver", "=", "x", ";", "Uid", "=", "a">> >>},
                driver \in {<<>>, <<"postgresql">>, <<"mysql">>},
                cert \in {<<>>, <<"/ca.pem">>, <<"/missing.pem">>} :
                environ = [DATAVACUUM_DBSTRING |-> dbstring, DATAVACUUM_DB_DRIVERNAME |-> driver,
                           DATAVACUUM_DB_SSLROOTCERT |-> cert, DATAVACUUM_SSLROOTCERT |-> cert]
          /\ \E info \in {<<>>,
                          <<[pairs |-> [k \in {<<"Uid">>} |-> <<"vault">>], Driver |-> "postgresql",
                             sslargs |-> [k \in {} |-> ""]]>>},
                rootcert \in {<<>>, << <<>> >>, << <<"/ca.pem">> >>, << <<"/missing.pem">> >>} :
                credentials = [get_db_connection_info |-> info,
                               get_ssl_rootcert_for_db |-> rootcert]
    /\ catalog = db.live

NextProcess ==
    \/ \E on_mismatch \in Policies, skip_establish \in BOOLEAN :
          GetDatabase(on_mismatch, skip_establish)
    \/ GetDbConnectionInfo

SpecProcess == InitProcess /\ [][NextProcess]_vars

\* C19: once a get_database call has succeeded, every later get_database
\* call succeeds and returns that same handle, whatever on_mismatch and
\* skip_establish it is given: no handle is constructed and no schema
\* establishment runs, so the module's handle, the live tables and their
\* rows, the handle's catalog and the sequences stay as they were.
C19_SingletonHandle ==
    [][(_database # <<>> /\ last'.op = "get_database") =>
         /\ last'.ok
         /\ last'.handle = _database
         /\ _database' = _database
         /\ db' = db
         /\ catalog' = catalog
         /\ seqs' = seqs
      ]_vars

\* a later call asked for establishment with 'replace', on a database with a
\* table of an earlier shape, and got the handle made under another policy
C19_Witness ==
    /\ last.op = "get_database"
    /\ last.ok
    /\ last.on_mismatch = "replace"
    /\ ~last.skip_establish
    /\ last.handle = _database
    /\ _database[1].on_mismatch # "replace"
    /\ _database[1].id < now
    /\ Mismatched(db) # {}

UploadedBoth ==
    push_data(Uploaded, "m2", {"g1", "g2"}, NoLoadIds, FALSE, TRUE, FALSE, 0, 2)

\* An uploaded database and the work queued for it afterwards: full-reload
\* rows for the Loads reloads, dump_extractions of the groups dumped, and,
\* with pending, the ReAnalyze rows that dump_higher_analysis leaves when the
\* Analysis table it empties still has the single load column of an earlier
\* definition (its join with Loads is then unambiguous) and the table is
\* created anew.
InitHeal ==
    \E U \in {Uploaded, UploadedBoth}, dumped \in SUBSET {"g1", "g3"}, pending \in BOOLEAN :
       \E reloads \in SUBSET U.d.loads :
          InitFrom(
            Bind(dump_extractions_of(
                    Commit([U EXCEPT !.c.rex = {RexRow(l.matid, l.MeasGroup, TRUE) : l \in reloads}]),
                    GroupOrder, dumped),
              LAMBDA D :
                IF ~pending THEN D
                ELSE Commit([D EXCEPT
                        !.c.rea = {ReaRow(l.matid, "a1") :
                                     l \in {x \in D.c.loads : \E r \in D.c.anl :
                                              \E g \in DOMAIN r.loadids : r.loadids[g] = x.loadid}},
                        !.c.anl = {}])))

NextHeal ==
    \/ \E env \in ReadEnvs, force_all_meas_groups \in BOOLEAN : Heal(env, force_all_meas_groups)
    \/ \E name \in Mats, gs \in NonEmpty(Groups), clear, user_called, re_extraction \in BOOLEAN :
          Push(name, gs, clear, user_called, re_extraction, 0)
    \/ \E mg \in Groups : DumpExtraction(mg)
    \/ \E mg \in Groups : DumpMeasurement(mg)

SpecHeal == InitHeal /\ [][NextHeal]_vars

\* cli_upload_data on the queued databases, with and without folders
NextUpload ==
    \E env \in ReadEnvs \cup {[kind |-> "accepted", disk |-> d] : d \in SUBSET Groups},
       name \in Mats, only_meas_groups \in {Groups, {"g1"}}, keep_other_groups \in BOOLEAN :
       UploadData(env, name, only_meas_groups, keep_other_groups)

SpecUpload == InitHeal /\ [][NextUpload]_vars

\* C21: when heal fails at a material of one of its two queues, what it
\* pushed for the materials it visited before stays committed (their group
\* has its one Load with the Meas, Extr and Sweep rows and no ReExtract row,
\* and, in the reanalysis pass, their ReAnalyze rows are gone and the Analysis
\* row is stored), and the Loads, the Meas/Extr/Sweep rows, the Analysis rows
\* and the rows of both queues of every material that comes after the failing
\* one in the order of the queue are what they were when the pass began.
C21_HealCommitGranularity ==
    [][(last'.op = "heal" /\ ~last'.ok) =>
         LET Ids(d, name) == {l.loadid : l \in {x \in d.loads : x.matid \in MatIds(d, name)}}
             Anl(d, name) == {r \in d.anl : \E g \in DOMAIN r.loadids : r.loadids[g] \in Ids(d, name)}
             Rea(d, name) == {r \in d.rea : r.matid \in MatIds(d, name)}
             Untouched(d, name) ==
                /\ \A g \in Groups :
                      /\ LoadsOf(db', name, g) = LoadsOf(d, name, g)
                      /\ GroupRows(db', g, LoadsOf(db', name, g)) = GroupRows(d, g, LoadsOf(d, name, g))
                      /\ QueuedFor(db', name, g) = QueuedFor(d, name, g)
                /\ Anl(db', name) = Anl(d, name)
                /\ Rea(db', name) = Rea(d, name)
         IN /\ \A p \in last'.pushed :
                  /\ QueuedFor(db', p[1], p[2]) = {}
                  /\ Cardinality(LoadsOf(db', p[1], p[2])) = 1
                  /\ \A l \in LoadsOf(db', p[1], p[2]) :
                        GroupRows(db', p[2], {l}) = StoredRows(p[2], l.loadid)
            /\ \A name \in Mats \ {last'.mat} :
                  IF last'.mid = <<>>
                  THEN (Duc(db, name) < Duc(db, last'.mat)) => Untouched(db, name)
                  ELSE /\ (Duc(db, name) < Duc(db, last'.mat)) => Untouched(last'.mid[1], name)
                       /\ (Duc(db, name) > Duc(db, last'.mat) /\ Rea(last'.mid[1], name) # {}) =>
                             /\ Rea(db', name) = {}
                             /\ Anl(db', name) # {}
      ]_vars

\* heal re-extracted a group of the newer material, failed at the older one,
\* and the older material is still queued
C21_Witness ==
    /\ last.op = "heal" /\ ~last.ok
    /\ last.pushed # {}
    /\ \E p \in last.pushed, name \in Mats :
          /\ Duc(db, name) < Duc(db, p[1])
          /\ name \notin {q[1] : q \in last.pushed}
          /\ \E g \in Groups : QueuedFor(db, name, g) # {}

(***************************************************************************)
(* Two uploads of one material at the same time                            *)
(***************************************************************************)
\* Two user calls of push_data for the same full name on connections of their
\* own (READ COMMITTED, the server's default: create_engine is given no
\* isolation level).  The call that reaches the Materials row first runs to
\* its commit; the other one waits at its first statement that meets the row:
\* at the upsert of enter_material when its DELETE of drop_material found no
\* row (the first call's INSERT is not visible to it), at the DELETE when the
\* row exists.  A DELETE that waited for a row the first call deleted removes
\* nothing, the row the first call inserted in its place is not in the
\* statement's snapshot; a DELETE that waited for a row the first call only
\* updated removes it.  stale: the second call's drop_material removed
\* nothing although the first call leaves a row of the name.
RacingPush(name, gs1, clear1, gs2, clear2) ==
    /\ now < MaxOps
    /\ Finish(
         Bind(push_data(Session(db, _init_metadata(db), seqs), name, gs1, NoLoadIds,
                        clear1, TRUE, FALSE, 0, now + 1),
           LAMBDA T1 :
             IF T1.failed THEN T1
             ELSE IF ~(clear2 /\ (clear1 \/ MatByName(db, name) = {}))
             THEN push_data(T1, name, gs2, NoLoadIds, clear2, TRUE, FALSE, 0, now + 1)
             ELSE Bind(enter_material(Connect(T1), name, TRUE, now + 1),
                    LAMBDA A2 :
                  Bind(push_groups(invalidate_analyses(A2, A2.ret, get_dependent_analyses(gs2)),
                                   GroupOrder, name, A2.ret, gs2, NoLoadIds, TRUE, FALSE, 0),
                    LAMBDA A4 :
                      Commit(perform_analyses(A4, get_dependent_analyses(gs2), gs2,
                                              A4.lids, A2.ret))))),
         [NoLast EXCEPT
            !.op = "racing push_data", !.mat = name, !.gs = gs1 \cup gs2,
            !.clear = clear1 \/ clear2, !.user = TRUE,
            !.had = {g \in Groups : LoadsOf(db, name, g) # {}},
            \* what the two calls leave when one runs after the other
            !.serial =
               {[ok |-> ~R.failed, groups |-> {g \in Groups : LoadsOf(R.d, name, g) # {}}] :
                  R \in {Bind(push_data(Session(db, _init_metadata(db), seqs), name, gs1,
                                        NoLoadIds, clear1, TRUE, FALSE, 0, now + 1),
                            LAMBDA X : IF X.failed THEN X
                                       ELSE push_data(X, name, gs2, NoLoadIds, clear2, TRUE,
                                                      FALSE, 0, now + 1)),
                         Bind(push_data(Session(db, _init_metadata(db), seqs), name, gs2,
                                        NoLoadIds, clear2, TRUE, FALSE, 0, now + 1),
                            LAMBDA X : IF X.failed THEN X
                                       ELSE push_data(X, name, gs1, NoLoadIds, clear1, TRUE,
                                                      FALSE, 0, now + 1))}}])

SpecRace ==
    InitTx /\ [][\E name \in Mats, gs1, gs2 \in NonEmpty(Groups), clear1, clear2 \in BOOLEAN :
                    RacingPush(name, gs1, clear1, gs2, clear2)]_vars

\* C22 as stated: for every interleaving of two user-called push_data
\* transactions for one full name, whether the material exists or not, both
\* complete, the committed state is the one that running the two one after
\* the other in some order produces, and every (material, group) has exactly
\* one Load.  Stated for two calls that both complete when they run one
\* after the other, in either order.
C22_ConcurrentPushesSerialized ==
    [][(last'.op = "racing push_data" /\ \A s \in last'.serial : s.ok) =>
          /\ last'.ok
          /\ \E s \in last'.serial :
                /\ s.ok
                /\ s.groups = {g \in Groups : LoadsOf(db', last'.mat, g) # {}}
          /\ \A name \in Mats, g \in Groups : Cardinality(LoadsOf(db', name, g)) <= 1
      ]_vars

(***************************************************************************)
(* The Materials row across uploads                                        *)
(***************************************************************************)
\* C23 as stated: across push_data calls, for every value of
\* clear_all_from_material, the Materials row of a known full name is not
\* deleted: its matid stays the same and the ReExtract and ReAnalyze rows
\* that reference it are not cascade-deleted.
C23_MaterialRowNeverDeleted ==
    [][last'.op = "push_data" =>
         \A name \in Mats :
            MatByName(db, name) # {} =>
               /\ MatIds(db', name) = MatIds(db, name)
               /\ \A g \in Groups :
                     (name # last'.mat \/ g \notin last'.gs) =>
                        QueuedFor(db', name, g) = QueuedFor(db, name, g)
      ]_vars

\* C23 amended: a push_data call with clear_all_from_material=false, and
\* every call for another material, leaves the Materials row of a known full
\* name in place: its matid stays the same and the ReExtract rows of the
\* groups the call does not push stay; a successful call with
\* clear_all_from_material=true deletes the row of its material and enters it
\* under a new matid, and no ReExtract or ReAnalyze row of the old matid is
\* left.
C23_MaterialRowKeptUnlessCleared ==
    [][last'.op = "push_data" =>
         \A name \in Mats :
            MatByName(db, name) # {} =>
               IF last'.ok /\ last'.clear /\ last'.mat = name
               THEN /\ MatIds(db', name) # {}
                    /\ MatIds(db', name) \cap MatIds(db, name) = {}
                    /\ \A r \in db'.rex \cup db'.rea : r.matid \notin MatIds(db, name)
               ELSE /\ MatIds(db', name) = MatIds(db, name)
                    /\ \A g \in Groups :
                          (name # last'.mat \/ g \notin last'.gs) =>
                             QueuedFor(db', name, g) = QueuedFor(db, name, g)
      ]_vars

\* a user upload with clear_all_from_material of a stored material that had a
\* group queued for a full reload
C23_Witness ==
    /\ last.op = "push_data" /\ last.ok /\ last.clear /\ last.user
    /\ last.had # {} /\ last.hadFull # {}
    /\ MatIds(db, last.mat) # {}
    /\ QueueByName(db) # {}

C25_StaleMarkingInsertIfAbsent ==
    [][(/\ last'.op = "push_data"
        /\ last'.user /\ ~last'.reext /\ ~last'.clear
        /\ \A a \in get_dependent_analyses(last'.gs) : required_dependencies[a] \subseteq last'.gs
        /\ \E a \in get_dependent_analyses(last'.gs), i \in MatIds(db, last'.mat) :
              ReaRow(i, a) \in db.rea)
          => /\ last'.ok
             /\ \A a \in Analyses, i \in MatIds(db', last'.mat) :
                   Cardinality({r \in db'.rea : r = ReaRow(i, a)}) <= 1
      ]_vars

\* C26 as stated: a push_data call with user_called=false and
\* clear_all_from_material=true for a material that is stored succeeds, and
\* the material has afterwards the date_user_changed it had before the call.
\* Stated for calls that bring every required dependency of the analyses they
\* select.
C26_SystemPushWithClear ==
    [][(/\ last'.op = "push_data"
        /\ ~last'.user /\ last'.clear /\ ~last'.reext
        /\ MatByName(db, last'.mat) # {}
        /\ \A a \in get_dependent_analyses(last'.gs) : required_dependencies[a] \subseteq last'.gs)
          => /\ last'.ok
             /\ Duc(db', last'.mat) = Duc(db, last'.mat)
      ]_vars

\* C27 as stated: in the reanalysis pass heal fails if a group that is a
\* required dependency of a pending analysis of a material has no stored
\* data, and it succeeds when only optional (attempt) dependencies have none:
\* the analysis is then stored with an absent load reference for them.
C27_RequiredAndOptionalDependencies ==
    [][(last'.op = "heal" /\ last'.mid # <<>>) =>
         LET D == last'.mid[1]
             Pending == {x \in [m : D.mat, a : Analyses] : ReaRow(x.m.matid, x.a) \in D.rea}
             HasData(name, g) ==
                \E l \in LoadsOf(D, name, g) :
                   DataRow(g, l.loadid) \in D.meas /\ DataRow(g, l.loadid) \in D.extr
         IN IF \E x \in Pending : \E g \in required_dependencies[x.a] : ~HasData(x.m.name, g)
            THEN ~last'.ok
            ELSE /\ last'.ok
                 /\ \A x \in Pending :
                       \E r \in db'.anl :
                          /\ r.analysis = x.a
                          /\ \A g \in required_dependencies[x.a] :
                                r.loadids[g] \in {l.loadid : l \in LoadsOf(db', x.m.name, g)}
                          /\ \A g \in attempt_dependencies[x.a] :
                                ~HasData(x.m.name, g) => r.loadids[g] = NULL
      ]_vars

C29_AnalysisRowsUniquePerDie ==
    \A r1, r2 \in db.anl :
        (r1.analysis = r2.analysis /\ r1.loadids = r2.loadids) => r1 = r2

(***************************************************************************)
(* The order in which heal works                                           *)
(***************************************************************************)
\* C30: heal handles every row of the PendingReload queue before it selects
\* the PendingReanalysis queue; in each queue the materials are visited by
\* descending date_user_changed; and where a material has full-reload and
\* extraction-only groups queued, its full-reload groups are re-read and
\* pushed before its extraction-only groups are re-extracted.
C30_HealOrdering ==
    [][last'.op = "heal" =>
        LET L == last'.log
            At(ev) == {i \in DOMAIN L : L[i].ev = ev}
            Full(n) == {q[2] : q \in {t \in last'.queued : t[1] = n /\ t[3]}}
        IN /\ Cardinality(At("select ReAnalyze")) <= 1
           /\ last'.ok => At("select ReAnalyze") # {}
           /\ \A j \in At("select ReAnalyze") :
                 /\ Cardinality(At("PendingReload")) = Cardinality(last'.queued)
                 /\ \A i \in At("PendingReload") \cup At("reload") \cup At("re-extract") : i < j
                 /\ \A i \in At("PendingReanalysis") :
                       /\ j < i
                       /\ \E m \in MatByName(last'.mid[1], L[i].name) :
                             \E r \in last'.mid[1].rea : r.matid = m.matid
           /\ \A i, j \in At("PendingReload") :
                 i < j => Duc(db, L[i].name) >= Duc(db, L[j].name)
           /\ \A i, j \in At("PendingReanalysis") :
                 i < j => Duc(last'.mid[1], L[i].name) >= Duc(last'.mid[1], L[j].name)
           /\ \A j \in At("re-extract") :
                 Full(L[j].name) # {} =>
                     \E i \in At("reload") :
                        i < j /\ L[i].name = L[j].name /\ L[i].gs = Full(L[j].name)
      ]_vars
\* a heal that succeeded after visiting two materials of different dates in
\* the first queue, reloading and then re-extracting one of them, and then
\* selecting the second queue
C30_Witness ==
    /\ last.op = "heal" /\ last.ok
    /\ \E i, j, k \in DOMAIN last.log :
          /\ i < j /\ j < k
          /\ last.log[i].ev = "reload" /\ last.log[j].ev = "re-extract"
          /\ last.log[i].name = last.log[j].name
          /\ last.log[k].ev = "select ReAnalyze"
    /\ \E i, j \in DOMAIN last.log :
          /\ last.log[i].ev = "PendingReload" /\ last.log[j].ev = "PendingReload"
          /\ last.log[i].name # last.log[j].name

(***************************************************************************)
(* The groups an extraction-only heal writes                               *)
(***************************************************************************)
\* C31: where the sufficiency check expands the extraction-only groups Q
\* queued for a material to a larger set E, heal pushes re-extracted rows for
\* the groups of Q only: for a group of E outside Q (and outside what the
\* reload of the same material reads from the files) the Extr rows and the
\* queue entries after the heal are the ones before it, and after a heal that
\* succeeded every group of Q with stored sweeps has its Extr rows again and
\* has left the queue.
C31_ExtractionOnlyHealWritesQueuedGroups ==
    [][last'.op = "heal" =>
        \A n \in Mats :
           LET Q == {t[2] : t \in {q \in last'.queued : q[1] = n /\ ~q[3]}}
               F == {t[2] : t \in {q \in last'.queued : q[1] = n /\ q[3]}}
               E == ensure_meas_group_sufficiency(Q)
               reread == IF F = {} \/ last'.env # "read" THEN {}
                         ELSE last'.gs \cap ensure_meas_group_sufficiency(
                                                IF last'.clear THEN Groups ELSE F)
           IN /\ \A g \in (E \ Q) \ reread :
                    /\ <<n, g>> \notin last'.pushed
                    /\ LoadsOf(db', n, g) = LoadsOf(db, n, g)
                    /\ GroupRows(db', g, LoadsOf(db', n, g)) = GroupRows(db, g, LoadsOf(db, n, g))
                    /\ \A full \in BOOLEAN :
                          <<n, g, full>> \in QueueByName(db') <=> <<n, g, full>> \in last'.queued
              /\ last'.ok =>
                    \A g \in Q \ reread :
                       get_data_for_regen(db, g, n) # NULL =>
                          /\ <<n, g>> \in last'.pushed
                          /\ DataRow(g, get_data_for_regen(db, g, n)) \in db'.extr
                          /\ <<n, g, FALSE>> \notin QueueByName(db')
      ]_vars
\* a heal that succeeded in re-extracting g3 for a material whose g1, pulled
\* along for the extraction, has stored sweeps, no Extr rows and a full-reload
\* entry that stays
C31_Witness ==
    /\ last.op = "heal" /\ last.ok
    /\ \E n \in Mats :
          /\ <<n, "g3", FALSE>> \in last.queued
          /\ <<n, "g1", TRUE>> \in last.queued
          /\ <<n, "g3">> \in last.pushed
          /\ <<n, "g1">> \notin last.pushed
          /\ <<n, "g1", TRUE>> \in QueueByName(db)
          /\ get_data_for_regen(db, "g1", n) # NULL
          /\ GroupRows(db, "g1", LoadsOf(db, n, "g1")).extr = {}

(***************************************************************************)
(* ReAnalyze rows after a recomputation                                    *)
(***************************************************************************)
\* C32 as stated: after a successful push_data for material M, and after a
\* successful reanalysis pass of heal for M, ReAnalyze holds no row (M, A)
\* for an analysis A recomputed in the operation, and the rows of other
\* materials and of analyses not recomputed are unchanged.
C32_MarkersClearedByRecomputation ==
    [][LET Rea(d, n) == {r.analysis : r \in {x \in d.rea : x.matid \in MatIds(d, n)}}
           L == last'.log
           Done == {L[i].name : i \in {j \in DOMAIN L :
                        /\ L[j].ev = "PendingReanalysis"
                        /\ (last'.ok \/ L[j].name # last'.mat)}}
       IN /\ (last'.op = "push_data" /\ last'.ok) =>
                /\ Rea(db', last'.mat) \cap get_dependent_analyses(last'.gs) = {}
                /\ Rea(db', last'.mat) \ get_dependent_analyses(last'.gs)
                      = Rea(db, last'.mat) \ get_dependent_analyses(last'.gs)
                /\ \A n \in Mats \ {last'.mat} : Rea(db', n) = Rea(db, n)
          /\ (last'.op = "heal" /\ last'.mid # <<>>) =>
                /\ \A n \in Done : Rea(db', n) = {}
                /\ \A n \in Mats \ Done : Rea(db', n) = Rea(last'.mid[1], n)
      ]_vars
\* C32, amended: the same, except that a push with clear_all_from_material
\* removes every ReAnalyze row of M with the Materials row it drops.
C32_MarkersClearedUnlessMaterialCleared ==
    [][LET Rea(d, n) == {r.analysis : r \in {x \in d.rea : x.matid \in MatIds(d, n)}}
           L == last'.log
           Done == {L[i].name : i \in {j \in DOMAIN L :
                        /\ L[j].ev = "PendingReanalysis"
                        /\ (last'.ok \/ L[j].name # last'.mat)}}
       IN /\ (last'.op = "push_data" /\ last'.ok) =>
                /\ Rea(db', last'.mat) \cap get_dependent_analyses(last'.gs) = {}
                /\ Rea(db', last'.mat) \ get_dependent_analyses(last'.gs)
                      = IF last'.clear THEN {}
                        ELSE Rea(db, last'.mat) \ get_dependent_analyses(last'.gs)
                /\ \A n \in Mats \ {last'.mat} : Rea(db', n) = Rea(db, n)
          /\ (last'.op = "heal" /\ last'.mid # <<>>) =>
                /\ \A n \in Done : Rea(db', n) = {}
                /\ \A n \in Mats \ Done : Rea(db', n) = Rea(last'.mid[1], n)
      ]_vars
\* a heal whose reanalysis of one queued material succeeded and was committed,
\* while the row of the other material, at which the heal then stopped, stays
C32_Witness ==
    /\ last.op = "heal" /\ last.mid # <<>>
    /\ \E i, j \in DOMAIN last.log :
          /\ i < j
          /\ last.log[i].ev = "PendingReanalysis" /\ last.log[j].ev = "PendingReanalysis"
          /\ last.log[i].name # last.log[j].name
          /\ \E m \in MatByName(last.mid[1], last.log[i].name) :
                /\ ReaRow(m.matid, "a1") \in last.mid[1].rea
                /\ ReaRow(m.matid, "a1") \notin db.rea
          /\ \E m \in MatByName(db, last.log[j].name) : ReaRow(m.matid, "a1") \in db.rea

(***************************************************************************)
(* The ReAnalyze rows of a push that fails                                 *)
(***************************************************************************)
\* C33: if push_data fails after the ReAnalyze rows of the dependent
\* analyses were inserted and before the analyses are recomputed, those
\* ReAnalyze rows are in the database afterwards.  (The pushes taken are those
\* that succeed when no exception is raised, so the exception raised after
\* step 3..7 is what ends them.)
C33_StaleMarkerSurvivesFailedPush ==
    [][(/\ last'.op = "push_data" /\ ~last'.ok /\ ~last'.reext
        /\ last'.failAt \in 3..7
        /\ ~push_data(Session(db, _init_metadata(db), seqs), last'.mat, last'.gs, NoLoadIds,
                      last'.clear, last'.user, FALSE, 0, now + 1).failed)
          => \A a \in get_dependent_analyses(last'.gs) :
                \E m \in MatByName(db', last'.mat) : ReaRow(m.matid, a) \in db'.rea
      ]_vars

(***************************************************************************)
(* Reordered die tables                                                    *)
(***************************************************************************)
\* C34 as stated: update_mask_info accepts a generated die table that holds
\* every stored row (mask, site, radius, centre) at another position than
\* before; it rejects only a table from which a stored row is missing or
\* altered.
C34_DieCheckByPresence ==
    [][(last'.op = "update_mask_info" /\ last'.permuted) => last'.ok]_vars
\* C34, amended: the check is by position: a generated table that holds every
\* stored row but not each at its stored position is rejected like one from
\* which a stored row is missing or altered, and nothing is written.
C34_DieCheckByPosition ==
    [][last'.op = "update_mask_info" =>
          /\ last'.permuted => ~last'.ok
          /\ last'.rejected => ~last'.ok /\ db' = db
      ]_vars
\* a refused run whose table held the two or more stored rows in another order
C34_Witness ==
    /\ last.op = "update_mask_info" /\ last.permuted /\ ~last.ok
    /\ Len(db.dies) >= 2

(***************************************************************************)
(* Creation and seeding in _ensure_table_exists                            *)
(***************************************************************************)
\* C35: a call of _ensure_table_exists creates the table and reaches on_init,
\* once, when after the mismatch handling the catalog has no table of that
\* name (it had none, or the mismatching one was dropped by 'replace' or by
\* the callback put in its place); it does not reach on_init when the
\* existing table matches; and with 'replace' the table returned after a
\* mismatch has the desired definition.  For the Layout tables, whose on_init
\* is update_layout_parameters, the table is filled when on_init was reached.
C35_CreationAndSeeding ==
    [][last'.op = "establish_database" =>
        LET L == last'.log
            Calls == {i \in DOMAIN L : L[i].ev = "_ensure_table_exists"}
            Replacing == {"replace", "meas_replacement_callback", "extr_replacement_callback",
                          "replacement_callback"}
        IN /\ \A i \in Calls :
                 /\ L[i].on_init <=>
                       \/ L[i].was = "absent"
                       \/ L[i].was = "old" /\ L[i].on_mismatch \in Replacing
                 /\ L[i].on_init => L[i].tab = "ok"
                 /\ L[i].was = "ok" => ~L[i].on_init /\ L[i].tab = "ok"
                 /\ (L[i].was = "old" /\ L[i].on_mismatch = "replace") => L[i].tab = "ok"
                 /\ (L[i].on_init /\ L[i].name[1] = "Layout") =>
                       \E j \in DOMAIN L :
                          j > i /\ L[j].ev = "INSERT INTO Layout" /\ L[j].name = L[i].name
           /\ last'.ok =>
                 \A t \in Tables :
                    db.live[t] = "absent" =>
                       /\ db'.live[t] = "ok"
                       /\ Cardinality({i \in Calls : L[i].name = t /\ L[i].on_init}) = 1
      ]_vars
\* an establish_database with 'replace' that met a table that matched, one
\* that was missing and a mismatching Layout table, and completed
C35_Witness ==
    /\ last.op = "establish_database" /\ last.ok /\ last.on_mismatch = "replace"
    /\ \E i, j, k \in DOMAIN last.log :
          /\ last.log[i].ev = "_ensure_table_exists" /\ last.log[i].was = "ok"
          /\ last.log[j].ev = "_ensure_table_exists" /\ last.log[j].was = "absent"
          /\ last.log[j].on_init
          /\ last.log[k].ev = "_ensure_table_exists" /\ last.log[k].was = "old"
          /\ last.log[k].on_mismatch = "replace" /\ last.log[k].name[1] = "Layout"
          /\ last.log[k].on_init

(***************************************************************************)
(* clear_database with a list of tables                                    *)
(***************************************************************************)
\* C36: clear_database(only_tables=S) with S non-empty drops exactly the
\* tables of S and removes exactly those from the catalog, leaving every
\* other table in place; if some table of S is not in the catalog the call
\* fails, and then no table has been dropped in the committed database.
C36_ClearRequestedSubset ==
    [][last'.op = "clear_database(only_tables)" =>
        LET S == Range(last'.table)
            known == {t \in Tables : db.live[t] # "absent"}
        IN IF S \subseteq known
           THEN Len(last'.table) = Cardinality(S) =>
                   /\ last'.ok
                   /\ db' = DropTables(db, S)
                   /\ \A t \in Tables :
                         catalog'[t] = IF t \in S THEN "absent" ELSE db.live[t]
           ELSE ~last'.ok /\ db' = db
      ]_vars

(***************************************************************************)
(* read_and_upload_data without a folder restriction                       *)
(***************************************************************************)
\* C37: read_and_upload_data with no folder restriction and no applicable
\* connect_toplevel_folder_to asks for confirmation; declined, it returns
\* with no read and no write to the database; accepted, it goes on to read
\* everything and pushes what it finds of every material.
C37_UnrestrictedReadConfirmation ==
    [][last'.op = "read_and_upload_data" =>
        /\ last'.env = "declined" =>
              last'.ok /\ last'.pushed = {} /\ db' = db /\ seqs' = seqs
        /\ last'.env = "accepted" =>
              /\ last'.ok
              /\ last'.pushed = {<<last'.mat, g>> : g \in last'.gs}
              /\ \A g \in last'.gs : LoadsOf(db', last'.mat, g) # {}
      ]_vars

(***************************************************************************)
(* Rows lost to a schema replacement                                       *)
(***************************************************************************)
\* C38: after an establish_database with 'replace' that completed, every
\* (material, group) of which Meas, Extr or Sweep rows were removed has a
\* row in ReExtract (the PendingReload queue), also when only the Sweep table
\* of the group differed.
C38_ReplacementQueuesWhatItRemoved ==
    [][(last'.op = "establish_database" /\ last'.on_mismatch = "replace" /\ last'.ok) =>
        \A mg \in Groups :
           \A i \in MatidsOfRows(db, {r \in (db.meas \ db'.meas) \cup (db.extr \ db'.extr)
                                             \cup (db.sweep \ db'.sweep) : r.MeasGroup = mg}) :
              \E x \in db'.rex : x.matid = i /\ x.MeasGroup = mg
      ]_vars

(***************************************************************************)
(* The catalog and the committed schema                                    *)
(***************************************************************************)
\* C39: after any sequence of establish_database, _ensure_table_exists and
\* clear_database operations, those that fail part-way and are rolled back
\* included, the in-memory catalog lists a table if and only if the table
\* exists in the committed schema.
C39_CatalogMatchesLiveSchema ==
    \A t \in Tables : (catalog[t] # "absent") <=> (db.live[t] # "absent")

(***************************************************************************)
(* establish_layout_parameters and update_layout_parameters                *)
(***************************************************************************)
\* C40: establish_layout_parameters -> _ensure_table_exists -> on_init ->
\* update_layout_parameters -> establish_layout_parameters ends at a call
\* that finds the Layout table present and matching: whether the table was
\* absent, matching, or of another definition under 'replace', the Layout
\* table of a group is created at most once and filled at most once, the
\* creation is the first call and is followed by exactly one more call, which
\* finds the table as desired and creates nothing.
C40_LayoutEstablishmentTerminates ==
    [][last'.op = "establish_database" =>
        \A mg \in Groups :
           LET calls == SelectSeq(last'.log, LAMBDA e : e.ev = "_ensure_table_exists"
                                                       /\ e.name = Tab("Layout", mg))
               inserts == SelectSeq(last'.log, LAMBDA e : e.ev = "INSERT INTO Layout"
                                                         /\ e.name = Tab("Layout", mg))
               created == {i \in DOMAIN calls : calls[i].on_init}
           IN /\ Len(calls) <= 2
              /\ Cardinality(created) <= 1
              /\ Len(inserts) <= Cardinality(created)
              /\ \A i \in created :
                    /\ i = 1
                    /\ calls[1].was = "absent"
                          \/ (calls[1].was = "old" /\ last'.on_mismatch = "replace")
                    /\ Len(calls) = 2
                    /\ calls[2].was = "ok" /\ ~calls[2].on_init /\ calls[2].tab = "ok"
              /\ created = {} => Len(calls) <= 1
              /\ (/\ last'.ok \/ last'.raised[1] \in GroupKinds \ {"Layout"}
                  /\ db.live[Tab("Layout", mg)] # "old" \/ last'.on_mismatch = "replace") =>
                    /\ calls # <<>>
                    /\ db'.live[Tab("Layout", mg)] = "ok"
      ]_vars

\* an establish_database with 'replace' created the Layout table of one group
\* that was absent and replaced that of another, and filled both
C40_Witness ==
    /\ last.op = "establish_database" /\ last.on_mismatch = "replace" /\ last.ok
    /\ \E g, h \in Groups :
          /\ g # h
          /\ \E i, j \in DOMAIN last.log :
                /\ last.log[i] = [ev |-> "_ensure_table_exists", name |-> Tab("Layout", g),
                                  was |-> "absent", on_mismatch |-> "replace",
                                  on_init |-> TRUE, tab |-> "ok"]
                /\ last.log[j] = [ev |-> "_ensure_table_exists", name |-> Tab("Layout", h),
                                  was |-> "old", on_mismatch |-> "replace",
                                  on_init |-> TRUE, tab |-> "ok"]
          /\ \A k \in {g, h} :
                \E i \in DOMAIN last.log :
                   last.log[i] = [ev |-> "INSERT INTO Layout", name |-> Tab("Layout", k)]

====
